---- MODULE Spec2Model ----
(***************************************************************************)
(* Intent inference workflow of the-brain-ai-scraper-2.                    *)
(*                                                                         *)
(* The repository holds several generations of the workflow:              *)
(*   - the routed workflow graph of intent_inference/graph.py, whose nodes *)
(*     are those of intent_inference/graph/nodes/ (human review, feedback) *)
(*     and of intent_inference-old/ (extraction, validation, critique),    *)
(*     over the context of intent_inference-old/state.py: Spec;            *)
(*   - the extract/validate graph of intent_inference/graph/graph.py over  *)
(*     the nodes of intent_inference/graph/nodes/: SpecGraph;              *)
(*   - the routers of the three generations applied to the states they can *)
(*     be handed: SpecRouters;                                             *)
(*   - the entity methods and the nodes of intent_inference/graph/nodes.py *)
(*     built on them, applied in sequences: SpecEntities.                  *)
(* Messages kept for display (messages / key_messages) are not modelled;   *)
(* a fresh uuid-based spec id is the fixed id BaseId.                      *)
(***************************************************************************)
EXTENDS Integers, Sequences, FiniteSets, TLC

(***************************************************************************)
(* Bounds                                                                  *)
(***************************************************************************)
MaxIter == 5        \* the workflow's iteration counter is explored up to here
MaxPass == 6        \* extraction/revision passes explored in one conversation
MaxIssues == 1      \* issues in one judge verdict
MaxHints == 3       \* length of a critique list grown without dedup
MaxRev == 3         \* revisions applied in a row to one spec id

(***************************************************************************)
(* Python values                                                           *)
(***************************************************************************)
\* Optional[T]: None is the empty tuple, a present value x is <<x>>.
None == <<>>
Some(x) == <<x>>
Val(o) == o[1]

Range(s) == {s[i] : i \in 1..Len(s)}

\* Sequences over S of length at most n.
SeqUpTo(S, n) == UNION {[1..k -> S] : k \in 0..n}

\* A text is a sequence of fragments; str.lower() maps it fragment by fragment.
LowerFrag(c) ==
    CASE c = "U" -> "u"
      [] c = "URL " -> "url "
      [] c = "URL" -> "url"
      [] OTHER -> c

Lower(s) == [i \in 1..Len(s) |-> LowerFrag(s[i])]

\* f"{n}" and int(s) on the revision numbers that occur.
Digits == <<"1", "2", "3", "4", "5", "6", "7", "8", "9", "10", "11", "12">>
NumStr(n) == Digits[n]
IsNum(s) == \E n \in 1..Len(Digits) : Digits[n] = s
StrInt(s) == CHOOSE n \in 1..Len(Digits) : Digits[n] = s

(***************************************************************************)
(* Collaborator outputs (inputs of the model)                              *)
(***************************************************************************)
UrlA == <<"https://", "a">>
UrlBare == <<"example.com">>
UrlLists == {<<>>, <<UrlA>>}
FieldLists == {<<"price">>}
Hints == {<<"U">>, <<"u">>}
IssueLists == SeqUpTo(Hints, MaxIssues)
Health == {"healthy", "unhealthy"}
Query == <<"q">>
BaseId == <<"intent_x">>

(***************************************************************************)
(* Specification entity: IntentSpec (intent_inference/state.py)            *)
(***************************************************************************)
\* A dict is the sequence of its <<key, value>> items in insertion order.
EmptyDict == <<>>
DictKeys(d) == {d[i][1] : i \in 1..Len(d)}
DictGet(d, k) == LET i == CHOOSE j \in 1..Len(d) : d[j][1] = k IN d[i][2]
DictSet(d, k, v) ==
    IF k \in DictKeys(d)
    THEN [i \in 1..Len(d) |-> IF d[i][1] = k THEN <<k, v>> ELSE d[i]]
    ELSE Append(d, <<k, v>>)

\* IntentSpec.create_new: a fresh id, the query as original_user_query, defaults.
create_new(user_query, urls, fields, constraints) ==
    [spec_id |-> BaseId,
     original_user_query |-> user_query,
     target_urls_or_sites |-> urls,
     data_to_extract |-> fields,
     constraints |-> constraints,
     url_health_status |-> EmptyDict,
     validation_status |-> "pending",
     critique_history |-> None]

HasRev(id) == \E i \in 1..Len(id) : id[i] = "_rev"
LastRevAt(id) == CHOOSE i \in 1..Len(id) : id[i] = "_rev" /\ \A j \in (i+1)..Len(id) : id[j] # "_rev"
ValueError == <<"ValueError">>

\* The spec_id part of IntentSpec.create_revision: rsplit("_rev", 1), int() + 1.
RevisionId(id) ==
    IF HasRev(id)
    THEN LET i == LastRevAt(id)
             base == SubSeq(id, 1, i - 1)
             rev_num == SubSeq(id, i + 1, Len(id))
         IN IF Len(rev_num) = 1 /\ IsNum(rev_num[1])
            THEN base \o <<"_rev", NumStr(StrInt(rev_num[1]) + 1)>>
            ELSE ValueError
    ELSE id \o <<"_rev", "1">>

\* updates: a record of Optional values, None standing for an absent keyword.
NoUpdates == [target_urls_or_sites |-> None, data_to_extract |-> None, constraints |-> None]

create_revision(spec, updates) ==
    [spec EXCEPT
        !.spec_id = RevisionId(spec.spec_id),
        !.target_urls_or_sites =
            IF updates.target_urls_or_sites = None THEN @ ELSE Val(updates.target_urls_or_sites),
        !.data_to_extract =
            IF updates.data_to_extract = None THEN @ ELSE Val(updates.data_to_extract),
        !.constraints =
            IF updates.constraints = None THEN @ ELSE Val(updates.constraints)]

(***************************************************************************)
(* Conversation context: ContextStore (intent_inference-old/state.py)      *)
(***************************************************************************)
NewContext(user_query) ==
    [user_query |-> user_query,
     input_type |-> "new_intent",
     critique_hints |-> <<>>,
     last_spec |-> None,
     iteration_count |-> 0,
     validation_history |-> 0]

increment_iteration(ctx) == [ctx EXCEPT !.iteration_count = @ + 1]

RECURSIVE AppendNewLower(_, _)
\* The dedup loop of add_critique_hints: a hint is appended unless its
\* lower-case form is already among the lower-case forms seen so far.
AppendNewLower(hints, new_hints) ==
    IF new_hints = <<>> THEN hints
    ELSE LET hint == Head(new_hints)
             existing_hints_lower == {Lower(hints[i]) : i \in 1..Len(hints)}
         IN IF Lower(hint) \notin existing_hints_lower
            THEN AppendNewLower(Append(hints, hint), Tail(new_hints))
            ELSE AppendNewLower(hints, Tail(new_hints))

old_add_critique_hints(ctx, new_hints) ==
    [ctx EXCEPT !.critique_hints = AppendNewLower(@, new_hints)]

update_last_spec(ctx, spec) == [ctx EXCEPT !.last_spec = Some(spec)]

\* validation_history is kept as the number of entries appended.
add_validation_history(ctx) == [ctx EXCEPT !.validation_history = @ + 1]

convert_to_feedback(ctx, feedback_query) ==
    [ctx EXCEPT !.user_query = feedback_query, !.input_type = "feedback"]

(***************************************************************************)
(* GraphState and the routers of the workflow graph                        *)
(***************************************************************************)
GraphState(ctx) ==
    [context |-> ctx,
     current_intent_spec |-> None,
     validation_result |-> None,
     user_feedback |-> None,
     needs_human_review |-> FALSE,
     human_approval |-> None,
     error_message |-> None]

create_initial_state(user_query) == GraphState(NewContext(user_query))

route_input(state) == state.context.input_type

route_validation(state) ==
    IF state.validation_result = None THEN "invalid"
    ELSE IF Val(state.validation_result).is_valid THEN "valid" ELSE "invalid"

route_human_review(state) ==
    IF state.needs_human_review THEN "pending"
    ELSE IF state.human_approval = Some(TRUE) THEN "approved"
    ELSE IF state.human_approval = Some(FALSE) THEN "rejected"
    ELSE "pending"

\* The edge tables of create_intent_inference_graph.
InputEdge(state) ==
    IF route_input(state) = "new_intent" THEN "process_new_intent" ELSE "process_feedback"

ValidationEdge(state) ==
    IF route_validation(state) = "valid" THEN "prepare_for_human_review" ELSE "revise_with_critique"

HumanEdge(state) ==
    CASE route_human_review(state) = "approved" -> "finalize_intent"
      [] route_human_review(state) = "rejected" -> "process_rejection"
      [] OTHER -> "END"

(***************************************************************************)
(* URL health prober (intent_inference-old/graph/tools/url_health.py)      *)
(***************************************************************************)
RECURSIVE ZipDict(_, _, _)
\* {url: result for url, result in zip(urls, results)}
ZipDict(d, urls, results) ==
    IF urls = <<>> THEN d
    ELSE ZipDict(DictSet(d, Head(urls), Head(results)), Tail(urls), Tail(results))

\* results: what the gathered per-URL checks returned, one per position.
old_check_urls_health(urls, results) == ZipDict(EmptyDict, urls, results)

ProbeResults(urls) == [1..Len(urls) -> Health]

(***************************************************************************)
(* Validation (intent_inference-old/graph/nodes/validation_nodes.py)       *)
(***************************************************************************)
ValidationResult(is_valid, status, issues) ==
    [is_valid |-> is_valid, status |-> status, issues |-> issues]

RECURSIVE Join(_)
\* ' '.join(issues)
Join(issues) ==
    IF issues = <<>> THEN <<>>
    ELSE IF Len(issues) = 1 THEN Head(issues)
    ELSE Head(issues) \o <<" ">> \o Join(Tail(issues))

ContainsAny(text, words) == \E i \in 1..Len(text) : text[i] \in words

ClarifyWords == {"ambiguous", "vague", "unclear", "specify", "clarify", "more detail"}
MissingWords == {"missing", "required", "must have", "mandatory", "lacking"}

UrlIssue(url) == <<"URL ">> \o url \o <<" is inaccessible or unhealthy">>

UnhealthyUrls(url_health_results) ==
    SelectSeq([i \in 1..Len(url_health_results) |-> url_health_results[i]],
              LAMBDA item : item[2] # "healthy")

\* Lines 139-152: the status of a judge verdict.
old_judge_status(is_valid, issues, unhealthy_urls) ==
    IF is_valid THEN "valid"
    ELSE LET issues_text == Lower(Join(issues))
         IN IF ContainsAny(issues_text, ClarifyWords) THEN "needs_clarification"
            ELSE IF unhealthy_urls # <<>> THEN "url_issue"
            ELSE IF ContainsAny(issues_text, MissingWords) THEN "missing_data"
            ELSE "invalid"

\* ValidationChain.run: a verdict of the judge; on failure of the call it is a
\* synthesized invalid verdict whose one issue is the error text.
JudgeVerdicts ==
    {[is_valid |-> TRUE, issues |-> <<>>]} \cup [is_valid : {FALSE}, issues : IssueLists]

\* probe: the prober's result per URL position; verdict: what ValidationChain.run
\* returns if it is called; raises: an exception inside the try block.
\* The result is <<new state, number of judge calls made>>.
old_validate_intent(state, probe, verdict, raises) ==
    IF state.current_intent_spec = None
    THEN <<[GraphState(state.context) EXCEPT
               !.error_message = Some(<<"Cannot validate without an intent specification">>)], 0>>
    ELSE IF raises
    THEN <<[GraphState(state.context) EXCEPT
               !.current_intent_spec = state.current_intent_spec,
               !.error_message = Some(<<"Error validating intent">>)], 0>>
    ELSE
      LET spec == Val(state.current_intent_spec)
          urls == spec.target_urls_or_sites
          url_health_results == old_check_urls_health(urls, probe)
          updated_spec == [spec EXCEPT !.url_health_status = url_health_results]
          unhealthy == UnhealthyUrls(url_health_results)
          unhealthy_urls == [i \in 1..Len(unhealthy) |-> unhealthy[i][1]]
      IN IF unhealthy_urls # <<>> /\ Len(unhealthy_urls) = Len(urls)
         THEN LET url_issues == [i \in 1..Len(unhealthy_urls) |-> UrlIssue(unhealthy_urls[i])]
                  validation_result == ValidationResult(FALSE, "url_issue", url_issues)
              IN <<[GraphState(add_validation_history(state.context)) EXCEPT
                       !.current_intent_spec = Some(updated_spec),
                       !.validation_result = Some(validation_result)], 0>>
         ELSE LET validation_result ==
                      ValidationResult(verdict.is_valid,
                                       old_judge_status(verdict.is_valid, verdict.issues, unhealthy_urls),
                                       verdict.issues)
              IN <<[GraphState(add_validation_history(state.context)) EXCEPT
                       !.current_intent_spec = Some(updated_spec),
                       !.validation_result = Some(validation_result)], 1>>

(***************************************************************************)
(* Extraction and revision nodes                                           *)
(***************************************************************************)
\* IntentChain.run: the parsed collaborator output; on failure of the call it is
\* a fallback of the same shape (one placeholder URL, one placeholder field).
Schemas ==
    [target_urls_or_sites : UrlLists, data_to_extract : FieldLists, constraints : {EmptyDict}]

\* intent_inference-old/graph/nodes/intent_nodes.py
old_process_new_intent(state, schema) ==
    LET spec ==
          IF state.current_intent_spec = None
          THEN create_new(state.context.user_query, schema.target_urls_or_sites,
                          schema.data_to_extract, schema.constraints)
          ELSE create_revision(Val(state.current_intent_spec),
                               [target_urls_or_sites |-> Some(schema.target_urls_or_sites),
                                data_to_extract |-> Some(schema.data_to_extract),
                                constraints |-> Some(schema.constraints)])
    IN [state EXCEPT
          !.current_intent_spec = Some(spec),
          !.needs_human_review = FALSE,
          !.human_approval = None]

\* FeedbackChain.run: the parsed updates; a failed call gives no updates at all.
FeedbackOutputs ==
    [target_urls_or_sites : {None, Some(<<UrlA>>)},
     data_to_extract : {None, Some(<<"price", "rating">>)},
     constraints : {None}]

\* A feedback step that builds the updated spec anew from the text in the
\* context (the feedback) instead of revising the previous spec.
process_feedback_anew(state, llm_output, raises) ==
    IF state.context.last_spec = None \/ raises
    THEN [GraphState(state.context) EXCEPT !.error_message = Some(<<"Error processing feedback">>)]
    ELSE LET last_spec == Val(state.context.last_spec)
             updated_spec == create_new(state.context.user_query, last_spec.target_urls_or_sites,
                                        last_spec.data_to_extract, last_spec.constraints)
         IN [GraphState(update_last_spec(state.context, updated_spec)) EXCEPT
                !.current_intent_spec = Some(updated_spec)]

\* intent_inference/graph/nodes/feedback_nodes.py
process_feedback(state, llm_output, raises) ==
    IF state.context.last_spec = None
    THEN [GraphState(state.context) EXCEPT
             !.error_message = Some(<<"Cannot process feedback without previous intent specification">>)]
    ELSE IF raises
    THEN [GraphState(state.context) EXCEPT
             !.error_message = Some(<<"Error processing feedback">>)]
    ELSE LET updated_spec == create_revision(Val(state.context.last_spec), llm_output)
             updated_context == update_last_spec(state.context, updated_spec)
         IN [GraphState(updated_context) EXCEPT !.current_intent_spec = Some(updated_spec)]

(***************************************************************************)
(* Critique accumulation and the human review gate                         *)
(***************************************************************************)
MAX_ITERATIONS == 5

\* intent_inference-old/graph/nodes/validation_nodes.py
revise_with_critique(state) ==
    IF state.validation_result = None
    THEN [GraphState(state.context) EXCEPT
             !.current_intent_spec = state.current_intent_spec,
             !.error_message = Some(<<"Cannot revise without validation results">>)]
    ELSE LET critique_hints == Val(state.validation_result).issues
             updated_context ==
                 increment_iteration(old_add_critique_hints(state.context, critique_hints))
         IN [GraphState(updated_context) EXCEPT
                !.current_intent_spec = state.current_intent_spec,
                !.validation_result = state.validation_result,
                !.needs_human_review = (updated_context.iteration_count >= MAX_ITERATIONS)]

\* A review gate that approves by itself the spec it was to expose.
prepare_for_human_review_approving(state) ==
    IF state.current_intent_spec = None
    THEN [GraphState(state.context) EXCEPT !.needs_human_review = FALSE]
    ELSE [GraphState(state.context) EXCEPT
             !.current_intent_spec =
                 Some([Val(state.current_intent_spec) EXCEPT
                          !.validation_status = "user_approved"]),
             !.validation_result = state.validation_result,
             !.needs_human_review = FALSE]

\* intent_inference/graph/nodes/human_nodes.py
prepare_for_human_review(state) ==
    IF state.current_intent_spec = None
    THEN [GraphState(state.context) EXCEPT
             !.error_message = Some(<<"Cannot prepare for human review without an intent specification">>),
             !.needs_human_review = FALSE]
    ELSE [GraphState(state.context) EXCEPT
             !.current_intent_spec = state.current_intent_spec,
             !.validation_result = state.validation_result,
             !.needs_human_review = TRUE]

\* Python truth value of an Optional[str].
Truthy(o) == o # None /\ Val(o) # <<>>

\* A name the module never bound: the call raises and the node returns nothing.
NameError(name) == [raised |-> "NameError", name |-> name]

\* With feedback text the node first calls add_user_message, which the module
\* does not import; only the branch without text reaches the return.
process_rejection(state) ==
    IF Truthy(state.user_feedback)
    THEN NameError("add_user_message")
    ELSE [GraphState(increment_iteration(state.context)) EXCEPT
             !.current_intent_spec = state.current_intent_spec,
             !.validation_result = None,
             !.needs_human_review = FALSE,
             !.human_approval = None]

finalize_intent(state) ==
    IF state.current_intent_spec = None
    THEN [GraphState(state.context) EXCEPT
             !.error_message = Some(<<"Cannot finalize without an intent specification">>)]
    ELSE LET final_spec ==
                 [Val(state.current_intent_spec) EXCEPT !.validation_status = "user_approved"]
         IN [GraphState(state.context) EXCEPT
                !.current_intent_spec = Some(final_spec),
                !.validation_result = state.validation_result,
                !.needs_human_review = FALSE]

(***************************************************************************)
(* The workflow graph of intent_inference/graph.py as a state machine      *)
(***************************************************************************)
VARIABLES
    pc,           \* the node about to run, "START", or "END" (stopped or paused)
    st,           \* the GraphState of the conversation
    judge_calls,  \* judge calls made by the latest validate_intent run
    last,         \* the step taken last
    decision      \* the human decision submitted last, if any

vars == <<pc, st, judge_calls, last, decision>>

\* A spec a previous turn left in the context.
PreviousSpec == create_new(Query, <<UrlA>>, <<"price">>, EmptyDict)
FeedbackQuery == <<"also extract rating">>

\* A conversation starts from create_initial_state, or in feedback mode from a
\* context turned by convert_to_feedback with or without a previous spec.
InitialStates ==
    {create_initial_state(Query),
     GraphState(convert_to_feedback(NewContext(Query), FeedbackQuery)),
     GraphState(convert_to_feedback(update_last_spec(NewContext(Query), PreviousSpec),
                                    FeedbackQuery))}

Init ==
    /\ pc = "START"
    /\ st \in InitialStates
    /\ judge_calls = 0
    /\ last = "init"
    /\ decision = None

\* START -> route_input
Start ==
    /\ pc = "START"
    /\ pc' = InputEdge(st)
    /\ last' = "START"
    /\ UNCHANGED <<st, judge_calls, decision>>

\* The revision number a spec id carries (0 for an id without one).
RevNumber(id) ==
    IF HasRev(id) /\ IsNum(id[Len(id)]) THEN StrInt(id[Len(id)]) ELSE 0

PassesLeft(spec) ==
    IF spec = None THEN TRUE ELSE RevNumber(Val(spec).spec_id) + 1 < MaxPass

ProcessNewIntent ==
    /\ pc = "process_new_intent"
    /\ PassesLeft(st.current_intent_spec)
    /\ \E schema \in Schemas : st' = old_process_new_intent(st, schema)
    /\ pc' = "validate_intent"
    /\ last' = "process_new_intent"
    /\ decision' = None
    /\ UNCHANGED judge_calls

ProcessFeedback ==
    /\ pc = "process_feedback"
    /\ PassesLeft(st.context.last_spec)
    /\ \E llm_output \in FeedbackOutputs, raises \in BOOLEAN :
          st' = process_feedback(st, llm_output, raises)
    /\ pc' = "validate_intent"
    /\ last' = "process_feedback"
    /\ decision' = None
    /\ UNCHANGED judge_calls

ValidateIntent ==
    /\ pc = "validate_intent"
    /\ LET urls == IF st.current_intent_spec = None THEN <<>>
                   ELSE Val(st.current_intent_spec).target_urls_or_sites
       IN \E probe \in ProbeResults(urls), verdict \in JudgeVerdicts, raises \in BOOLEAN :
             LET result == old_validate_intent(st, probe, verdict, raises)
             IN /\ st' = result[1]
                /\ judge_calls' = result[2]
    /\ pc' = ValidationEdge(st')
    /\ last' = "validate_intent"
    /\ UNCHANGED decision

ReviseWithCritique ==
    /\ pc = "revise_with_critique"
    /\ st.context.iteration_count < MaxIter
    /\ st' = revise_with_critique(st)
    /\ pc' = InputEdge(st')
    /\ last' = "revise_with_critique"
    /\ UNCHANGED <<judge_calls, decision>>

PrepareForHumanReview ==
    /\ pc = "prepare_for_human_review"
    /\ st' = prepare_for_human_review(st)
    /\ pc' = HumanEdge(st')
    /\ last' = "prepare_for_human_review"
    /\ UNCHANGED <<judge_calls, decision>>

\* process_rejection and finalize_intent are wired behind route_human_review's
\* "rejected" and "approved" answers.
ProcessRejection ==
    /\ pc = "process_rejection"
    /\ st.context.iteration_count < MaxIter
    /\ st' = process_rejection(st)
    /\ pc' = "revise_with_critique"
    /\ last' = "process_rejection"
    /\ UNCHANGED <<judge_calls, decision>>

FinalizeIntent ==
    /\ pc = "finalize_intent"
    /\ st' = finalize_intent(st)
    /\ pc' = "END"
    /\ last' = "finalize_intent"
    /\ UNCHANGED <<judge_calls, decision>>

FeedbackTexts == {<<>>, <<"U">>, <<"also extract rating">>}

\* run.py, main: with the thread paused for review the human approves (notes
\* optional) or rejects (text possibly empty); the answer is written into a copy
\* of the paused state and the thread is continued, which takes the routing
\* edge it stopped at (route_human_review) on the updated state.
SubmitDecision ==
    /\ pc = "END"
    /\ st.needs_human_review
    /\ \E approved \in BOOLEAN, feedback \in FeedbackTexts :
          /\ st' = [st EXCEPT
                      !.human_approval = Some(approved),
                      !.user_feedback = IF approved /\ feedback = <<>> THEN @ ELSE Some(feedback)]
          /\ decision' = Some([approved |-> approved, feedback |-> feedback])
    /\ pc' = HumanEdge(st')
    /\ last' = "submit_decision"
    /\ UNCHANGED judge_calls

Next ==
    \/ Start
    \/ ProcessNewIntent
    \/ ProcessFeedback
    \/ ValidateIntent
    \/ ReviseWithCritique
    \/ PrepareForHumanReview
    \/ SubmitDecision

Spec == Init /\ [][Next]_vars

(***************************************************************************)
(* Claims about the workflow graph (checked under Spec)                    *)
(***************************************************************************)
\* Every validation recorded so far was invalid and went through
\* revise_with_critique.
AllPassesInvalid ==
    /\ st.validation_result # None
    /\ ~Val(st.validation_result).is_valid
    /\ st.context.validation_history = st.context.iteration_count

\* C1: when every validation was invalid and revise_with_critique has just
\* brought iteration_count to 5 or more, the routing decision taken after it
\* sends the workflow to human review, not to another extract/revise pass.
C1_CapRoutesToHumanReview ==
    (last = "revise_with_critique"
        /\ AllPassesInvalid
        /\ st.context.iteration_count >= MAX_ITERATIONS)
    => pc \in {"prepare_for_human_review", "END"}

\* C4: when the human approves a conversation paused at human review, the
\* resumed workflow routes to finalize_intent; the approval is not answered by
\* another pause.
C4_ApprovalRoutesToFinalize ==
    (last = "submit_decision" /\ decision # None /\ Val(decision).approved)
    => pc = "finalize_intent"

\* C5: when the human rejects a paused conversation with feedback text, the
\* workflow goes on to process_rejection, and is not paused again with the
\* text absent from critique_hints.
C5_RejectionRoutesToRevision ==
    (last = "submit_decision" /\ decision # None
        /\ ~Val(decision).approved /\ Val(decision).feedback # <<>>)
    => \/ pc = "process_rejection"
       \/ \E i \in 1..Len(st.context.critique_hints) :
             st.context.critique_hints[i] = Val(decision).feedback

(***************************************************************************)
(* The extract/validate graph of intent_inference/graph/graph.py           *)
(* Its nodes are those of the package intent_inference/graph/nodes/ and    *)
(* its state is the GraphState of intent_inference/graph/state.py, whose   *)
(* context is a plain dict.                                                *)
(***************************************************************************)
\* intent_inference/graph/tools/url_health.py: a URL without a scheme is probed,
\* and recorded, as "https://" + url.
WithScheme(url) == IF url # <<>> /\ url[1] = "https://" THEN url ELSE <<"https://">> \o url

RECURSIVE ProbeEach(_, _, _)
ProbeEach(d, urls, results) ==
    IF urls = <<>> THEN d
    ELSE ProbeEach(DictSet(d, WithScheme(Head(urls)), Head(results)), Tail(urls), Tail(results))

check_urls_health_sync(urls, results) == ProbeEach(EmptyDict, urls, results)

RECURSIVE DictUpdate(_, _)
\* for key, value in items: d[key] = value
DictUpdate(d, items) ==
    IF items = <<>> THEN d
    ELSE DictUpdate(DictSet(d, Head(items)[1], Head(items)[2]), Tail(items))

Queries == {<<>>, Query}
GraphUrlLists == {<<>>, <<UrlA>>, <<UrlBare>>}
GraphSchemas ==
    [target_urls_or_sites : GraphUrlLists, data_to_extract : FieldLists, constraints : {EmptyDict}]

\* intent_inference/graph/graph.py, create_initial_state
graph_create_initial_state(user_query) == GraphState([user_query |-> user_query])

\* intent_inference/graph/nodes/intent_nodes.py; result: the parsed output of
\* the chain; raises: the chain or the parsing of its output failed.
gn_process_new_intent(state, result, raises) ==
    LET user_query == state.context.user_query
    IN IF user_query = <<>>
       THEN [state EXCEPT !.error_message = Some(<<"No user query provided in context">>)]
       ELSE IF raises
       THEN [state EXCEPT !.error_message = Some(<<"Error processing intent">>)]
       ELSE [state EXCEPT
                !.current_intent_spec =
                    Some(create_new(user_query, result.target_urls_or_sites,
                                    result.data_to_extract, result.constraints))]

\* intent_inference/graph/nodes/validation_nodes.py. The result is
\* <<new state, number of judge calls made>>.
gn_validate_intent(state, probe, verdict, raises) ==
    IF state.current_intent_spec = None
    THEN <<[state EXCEPT
               !.error_message = Some(<<"No intent specification to validate">>),
               !.validation_result =
                   Some(ValidationResult(FALSE, "invalid",
                            << <<"No intent specification available for validation">> >>))], 0>>
    ELSE
      LET spec == Val(state.current_intent_spec)
          urls == spec.target_urls_or_sites
          url_health_results == check_urls_health_sync(urls, probe)
          updated_spec ==
              [spec EXCEPT !.url_health_status = DictUpdate(@, url_health_results)]
          healthy_urls ==
              Cardinality({i \in 1..Len(url_health_results) : url_health_results[i][2] = "healthy"})
      IN IF urls = <<>> \/ healthy_urls = 0
         THEN <<[state EXCEPT
                    !.current_intent_spec = Some(updated_spec),
                    !.validation_result =
                        Some(ValidationResult(FALSE, "invalid",
                                 << <<"None of the provided URLs are accessible">> >>))], 0>>
         ELSE IF raises
         THEN <<[state EXCEPT
                    !.current_intent_spec = Some(updated_spec),
                    !.error_message = Some(<<"Error validating intent">>),
                    !.validation_result =
                        Some(ValidationResult(FALSE, "invalid", << <<"Validation error">> >>))], 1>>
         ELSE <<[state EXCEPT
                    !.current_intent_spec = Some(updated_spec),
                    !.validation_result =
                        Some(ValidationResult(verdict.is_valid,
                                              IF verdict.is_valid THEN "valid" ELSE "invalid",
                                              verdict.issues))], 1>>

\* The human_review node the graph imports from human_nodes.py is not among the
\* sources; it is taken from the specification's Human Review Gate, which
\* pauses the workflow with the current spec exposed.
human_review(state) == [state EXCEPT !.needs_human_review = TRUE]

\* A decision handler that records the decision whatever the state of the
\* conversation.
process_human_approval_unchecked(state, approved, feedback) ==
    [state EXCEPT
        !.needs_human_review = FALSE,
        !.human_approval = Some(approved),
        !.user_feedback = IF feedback = <<>> THEN @ ELSE Some(feedback),
        !.current_intent_spec =
            IF approved /\ @ # None
            THEN Some([Val(@) EXCEPT !.validation_status = "user_approved"])
            ELSE @]

\* The process_human_approval function graph.py imports from human_nodes.py is
\* not among the sources either; it is taken from the specification's Human
\* Review boundary: a decision is only valid while the conversation is pending
\* review, otherwise it is answered with a state-mismatch signal and the spec is
\* left untouched; an approval makes the spec user_approved, a rejection keeps
\* its feedback text for the revision.
process_human_approval(state, approved, feedback) ==
    IF ~state.needs_human_review
    THEN [state EXCEPT !.error_message = Some(<<"state mismatch">>)]
    ELSE [state EXCEPT
            !.needs_human_review = FALSE,
            !.human_approval = Some(approved),
            !.user_feedback = IF feedback = <<>> THEN @ ELSE Some(feedback),
            !.current_intent_spec =
                IF approved /\ @ # None
                THEN Some([Val(@) EXCEPT !.validation_status = "user_approved"])
                ELSE @]

\* intent_inference/graph/graph.py, process_human_input
process_human_input(state, approved, feedback) ==
    process_human_approval(state, approved, feedback)

GraphValidationEdge(state) ==
    IF route_validation(state) = "valid" THEN "human_review" ELSE "process_new_intent"

GraphHumanEdge(state) ==
    IF route_human_review(state) = "rejected" THEN "process_new_intent" ELSE "END"

InitGraph ==
    /\ pc = "START"
    /\ st \in {graph_create_initial_state(q) : q \in Queries}
    /\ judge_calls = 0
    /\ last = "init"
    /\ decision = None

GraphStart ==
    /\ pc = "START"
    /\ pc' = "process_new_intent"
    /\ last' = "START"
    /\ UNCHANGED <<st, judge_calls, decision>>

GraphProcessNewIntent ==
    /\ pc = "process_new_intent"
    /\ \E result \in GraphSchemas, raises \in BOOLEAN :
          st' = gn_process_new_intent(st, result, raises)
    /\ pc' = "validate_intent"
    /\ last' = "process_new_intent"
    /\ UNCHANGED <<judge_calls, decision>>

GraphValidateIntent ==
    /\ pc = "validate_intent"
    /\ LET urls == IF st.current_intent_spec = None THEN <<>>
                   ELSE Val(st.current_intent_spec).target_urls_or_sites
       IN \E probe \in ProbeResults(urls), verdict \in JudgeVerdicts, raises \in BOOLEAN :
             LET result == gn_validate_intent(st, probe, verdict, raises)
             IN /\ st' = result[1]
                /\ judge_calls' = result[2]
    /\ pc' = GraphValidationEdge(st')
    /\ last' = "validate_intent"
    /\ UNCHANGED decision

GraphHumanReview ==
    /\ pc = "human_review"
    /\ st' = human_review(st)
    /\ pc' = GraphHumanEdge(st')
    /\ last' = "human_review"
    /\ UNCHANGED <<judge_calls, decision>>

\* A caller hands a human decision to process_human_input for a conversation
\* whose run has stopped (paused for review, or already decided); an accepted
\* decision continues the run along the edge of route_human_review.
GraphProcessHumanInput ==
    /\ pc = "END"
    /\ \E approved \in BOOLEAN, feedback \in FeedbackTexts :
          /\ st' = process_human_input(st, approved, feedback)
          /\ decision' = Some([approved |-> approved, feedback |-> feedback])
    /\ pc' = IF st.needs_human_review THEN GraphHumanEdge(st') ELSE "END"
    /\ last' = "process_human_input"
    /\ UNCHANGED judge_calls

NextGraph ==
    \/ GraphStart
    \/ GraphProcessNewIntent
    \/ GraphValidateIntent
    \/ GraphHumanReview
    \/ GraphProcessHumanInput

\* The graph runtime runs the node an edge leads to: a run stops only at END.
SpecGraph == InitGraph /\ [][NextGraph]_vars /\ WF_vars(NextGraph)

\* C2: every run of the graph ends, at the human-review pause or at the
\* terminal state (both END), whatever the judge and the URL prober answer;
\* no run cycles forever between extraction and validation.
C2_EveryRunEnds == <>(pc = "END")

\* The prober reported every target URL of the validated spec unhealthy, and
\* there is at least one.
GraphAllUrlsUnhealthy ==
    /\ st.current_intent_spec # None
    /\ LET spec == Val(st.current_intent_spec)
       IN /\ spec.target_urls_or_sites # <<>>
          /\ spec.url_health_status # EmptyDict
          /\ \A i \in 1..Len(spec.url_health_status) : spec.url_health_status[i][2] # "healthy"

\* C3: when validate_intent has run on a spec with at least one target URL and
\* the prober found every one unhealthy, the result is invalid with status
\* url_issue and the judge was not called.
C3_FailFastUrlIssue ==
    (last = "validate_intent" /\ GraphAllUrlsUnhealthy)
    => /\ st.validation_result # None
       /\ ~Val(st.validation_result).is_valid
       /\ Val(st.validation_result).status = "url_issue"
       /\ judge_calls = 0

(***************************************************************************)
(* The dict-state generation: intent_inference/graph/nodes.py and          *)
(* nodes_simple.py over models/intent/intent_spec.py and models/context.py *)
(***************************************************************************)
MaxAttempt == 4     \* processing_attempt values explored

\* models/intent/intent_spec.py, IntentSpec with its defaults
ModelIntentSpec(spec_id, urls, fields) ==
    [spec_id |-> spec_id,
     original_query |-> Query,
     target_urls |-> urls,
     fields_to_extract |-> fields,
     technical_requirements |-> <<"html_parsing">>,
     constraints |-> EmptyDict,
     url_health_status |-> EmptyDict,
     validation_status |-> "pending",
     critique_history |-> <<>>,
     clarification_questions |-> <<>>]

\* models/context.py, ContextStore with its defaults
ModelContextStore ==
    [user_query |-> None,
     is_feedback |-> FALSE,
     critique_hints |-> <<>>,
     last_spec |-> None,
     processing_attempt |-> 0,
     max_attempts |-> 3]

\* The state dictionary of nodes.py / nodes_simple.py.
AppState(context) ==
    [context |-> context,
     intent_output |-> None,
     feedback_output |-> None,
     intent_spec |-> None,
     validation_result |-> None,
     url_health_status |-> EmptyDict]

LLMValidation(is_valid, issues) ==
    [is_valid |-> is_valid, issues |-> issues,
     needs_clarification |-> FALSE, clarification_questions |-> <<>>]

AnyUnhealthy(url_health) == \E i \in 1..Len(url_health) : url_health[i][2] # "healthy"

\* nodes.py
n_branch_logic(state) ==
    IF state.context.is_feedback /\ state.context.last_spec # None
    THEN "process_feedback" ELSE "process_new_intent"

n_make_decision(state) ==
    IF state.validation_result = None THEN "error"
    ELSE IF Val(state.validation_result).is_valid
    THEN IF AnyUnhealthy(state.url_health_status) THEN "add_critique" ELSE "human_review"
    ELSE IF state.context.processing_attempt >= state.context.max_attempts THEN "human_review"
    ELSE "add_critique"

\* nodes_simple.py
ns_branch_logic(state) ==
    IF state.context.is_feedback THEN "process_feedback"
    ELSE IF state.context.last_spec = None THEN "process_new_intent"
    ELSE "process_new_intent"

ns_make_decision(state) ==
    IF state.intent_spec = None THEN "error"
    ELSE IF state.context.processing_attempt >= state.context.max_attempts THEN "human_review"
    ELSE IF state.validation_result # None
    THEN IF Val(state.validation_result).is_valid THEN "human_review" ELSE "add_critique"
    ELSE LET intent_spec == Val(state.intent_spec)
         IN IF AnyUnhealthy(intent_spec.url_health_status) THEN "human_review"
            ELSE IF intent_spec.critique_history # <<>> \/ intent_spec.clarification_questions # <<>>
            THEN IF state.context.processing_attempt < state.context.max_attempts
                 THEN "add_critique" ELSE "human_review"
            ELSE "human_review"

(***************************************************************************)
(* The routers applied to the states they can be handed (SpecRouters)      *)
(***************************************************************************)
HealthMaps == {EmptyDict, << <<UrlA, "healthy">> >>, << <<UrlA, "unavailable">> >>}

RouterContexts ==
    {[ModelContextStore EXCEPT
        !.user_query = Some(Query), !.is_feedback = f, !.last_spec = l, !.processing_attempt = a] :
        f \in BOOLEAN,
        l \in {None, Some(ModelIntentSpec(BaseId, <<UrlA>>, <<"price">>))},
        a \in 0..MaxAttempt}

RouterSpecs ==
    {None} \cup
    {Some([ModelIntentSpec(BaseId, <<UrlA>>, <<"price">>) EXCEPT !.url_health_status = h]) :
        h \in HealthMaps}

RouterAppStates ==
    {[AppState(c) EXCEPT !.intent_spec = s, !.validation_result = v, !.url_health_status = h] :
        c \in RouterContexts,
        s \in RouterSpecs,
        v \in {None, Some(LLMValidation(TRUE, <<>>)), Some(LLMValidation(FALSE, << <<"U">> >>))},
        h \in HealthMaps}

\* GraphStates of the workflow graph, with and without a validation result.
RouterGraphStates ==
    {[s EXCEPT !.validation_result = v] :
        s \in InitialStates,
        v \in {None, Some(ValidationResult(TRUE, "valid", <<>>)),
               Some(ValidationResult(FALSE, "invalid", << <<"U">> >>))}}

IsAppState(s) == "intent_spec" \in DOMAIN s

InitRouters ==
    /\ pc = "START"
    /\ st \in RouterAppStates \cup RouterGraphStates
    /\ judge_calls = 0
    /\ last = "init"
    /\ decision = None

\* A router is applied to the state: pc becomes the node it names.
Route(name, node) ==
    /\ pc = "START"
    /\ pc' = node
    /\ last' = name
    /\ UNCHANGED <<st, judge_calls, decision>>

NodesBranchLogic == IsAppState(st) /\ Route("nodes.branch_logic", n_branch_logic(st))
NodesMakeDecision == IsAppState(st) /\ Route("nodes.make_decision", n_make_decision(st))
SimpleBranchLogic == IsAppState(st) /\ Route("nodes_simple.branch_logic", ns_branch_logic(st))
SimpleMakeDecision == IsAppState(st) /\ Route("nodes_simple.make_decision", ns_make_decision(st))
RouteInput == ~IsAppState(st) /\ Route("route_input", InputEdge(st))
RouteValidation == ~IsAppState(st) /\ Route("route_validation", ValidationEdge(st))

NextRouters ==
    \/ NodesBranchLogic
    \/ NodesMakeDecision
    \/ SimpleBranchLogic
    \/ SimpleMakeDecision
    \/ RouteInput
    \/ RouteValidation

SpecRouters == InitRouters /\ [][NextRouters]_vars

\* C6: whenever the validation result has is_valid = true (and there is a spec),
\* the decision router names human review as the next step, whatever the
\* attempt count and the URL health map are.
C6_ValidGoesToHumanReview ==
    /\ (last \in {"nodes.make_decision", "nodes_simple.make_decision"}
           /\ st.intent_spec # None
           /\ st.validation_result # None /\ Val(st.validation_result).is_valid)
       => pc = "human_review"
    /\ (last = "route_validation"
           /\ st.validation_result # None /\ Val(st.validation_result).is_valid)
       => pc = "prepare_for_human_review"

\* C7: the entry router names Revision (process_feedback) exactly when the
\* context is marked as feedback and holds a last spec, and Extraction
\* (process_new_intent) otherwise.
C7_EntryRouter ==
    /\ last \in {"nodes.branch_logic", "nodes_simple.branch_logic"}
       => pc = IF st.context.is_feedback /\ st.context.last_spec # None
               THEN "process_feedback" ELSE "process_new_intent"
    /\ last = "route_input"
       => pc = IF st.context.input_type = "feedback" /\ st.context.last_spec # None
               THEN "process_feedback" ELSE "process_new_intent"

(***************************************************************************)
(* Entity methods and the nodes built on them                              *)
(***************************************************************************)
\* intent_inference/state.py, ContextStore: the current context has no
\* validation history, and add_critique_hints extends the list.
ContextStore(user_query) ==
    [user_query |-> user_query,
     input_type |-> "new_intent",
     critique_hints |-> <<>>,
     last_spec |-> None,
     iteration_count |-> 0]

add_critique_hints(ctx, new_hints) == [ctx EXCEPT !.critique_hints = @ \o new_hints]

\* models/context.py, ContextStore.add_critique
mc_add_critique(ctx, critique) ==
    [ctx EXCEPT
        !.critique_hints = IF critique \in Range(@) THEN @ ELSE Append(@, critique),
        !.processing_attempt = @ + 1]

\* models/context.py, ContextStore.set_user_query
mc_set_user_query(ctx, query, is_feedback) ==
    IF is_feedback
    THEN [ctx EXCEPT !.user_query = Some(query), !.is_feedback = TRUE]
    ELSE [ctx EXCEPT !.user_query = Some(query), !.is_feedback = FALSE,
                     !.critique_hints = <<>>, !.last_spec = None, !.processing_attempt = 0]

mc_update_last_spec(ctx, spec) == [ctx EXCEPT !.last_spec = Some(spec)]

RECURSIVE AddCritiques(_, _)
\* for issue in issues: context.add_critique(issue)
AddCritiques(ctx, issues) ==
    IF issues = <<>> THEN ctx
    ELSE AddCritiques(mc_add_critique(ctx, Head(issues)), Tail(issues))

\* f"URL '{url}' is {status}"
UrlStatusIssue(url, status) == <<"URL '">> \o url \o <<"' is ", status>>

\* nodes.py, add_critique
n_add_critique(state) ==
    LET url_health == state.url_health_status
        bad == SelectSeq(url_health, LAMBDA item : item[2] # "healthy")
        url_issues == [i \in 1..Len(bad) |-> UrlStatusIssue(bad[i][1], bad[i][2])]
        issues == IF state.validation_result = None THEN <<>>
                  ELSE Val(state.validation_result).issues
        context == AddCritiques(AddCritiques(state.context, issues), url_issues)
        intent_spec ==
            IF state.validation_result # None /\ Val(state.validation_result).needs_clarification
               /\ state.intent_spec # None
            THEN Some([Val(state.intent_spec) EXCEPT
                          !.clarification_questions =
                              Val(state.validation_result).clarification_questions])
            ELSE state.intent_spec
    IN [state EXCEPT !.context = context, !.intent_spec = intent_spec]

\* spec_id.endswith("_rev1")
EndsWithRev1(id) == Len(id) >= 2 /\ id[Len(id) - 1] = "_rev" /\ id[Len(id)] = "1"

RECURSIVE AppendMissing(_, _)
\* for x in items: if x not in list: list.append(x)
AppendMissing(list, items) ==
    IF items = <<>> THEN list
    ELSE AppendMissing(IF Head(items) \in Range(list) THEN list ELSE Append(list, Head(items)),
                       Tail(items))

Without(list, removed) == SelectSeq(list, LAMBDA x : x \notin Range(removed))

\* models/llm_schema.py, LLMFeedback
LLMFeedback(urls_to_add, fields_to_add, reasoning) ==
    [target_urls_to_add |-> urls_to_add,
     target_urls_to_remove |-> <<>>,
     fields_to_add |-> fields_to_add,
     fields_to_remove |-> <<>>,
     constraints_to_update |-> EmptyDict,
     requirements_to_add |-> <<>>,
     reasoning |-> reasoning]

\* nodes.py, post_process_feedback (a field is kept as its name)
n_post_process_feedback(state) ==
    IF state.context.last_spec = None THEN state
    ELSE IF state.feedback_output = None
    THEN [state EXCEPT !.intent_spec = state.context.last_spec]
    ELSE
      LET last_spec == Val(state.context.last_spec)
          feedback_output == Val(state.feedback_output)
          spec ==
            [last_spec EXCEPT
               !.spec_id = IF EndsWithRev1(@) THEN @ ELSE @ \o <<"_rev", "1">>,
               !.target_urls = Without(AppendMissing(@, feedback_output.target_urls_to_add),
                                       feedback_output.target_urls_to_remove),
               !.fields_to_extract = Without(@ \o feedback_output.fields_to_add,
                                             feedback_output.fields_to_remove),
               !.constraints = DictUpdate(@, feedback_output.constraints_to_update),
               !.technical_requirements = AppendMissing(@, feedback_output.requirements_to_add),
               !.critique_history =
                   IF feedback_output.reasoning = <<>> THEN @
                   ELSE Append(@, <<"Feedback applied: ">> \o feedback_output.reasoning),
               !.validation_status = "pending",
               !.clarification_questions = <<>>]
      IN [state EXCEPT !.context = mc_update_last_spec(state.context, spec),
                       !.intent_spec = Some(spec)]

\* chains/feedback_chain.py, _update_spec_revision: split("_rev") must give
\* exactly two parts, and the second must be a number.
RevCount(id) == Cardinality({i \in 1..Len(id) : id[i] = "_rev"})

update_spec_revision(spec) ==
    IF ~HasRev(spec.spec_id)
    THEN [spec EXCEPT !.spec_id = @ \o <<"_rev", "1">>]
    ELSE LET id == spec.spec_id
             i == LastRevAt(id)
             rev == SubSeq(id, i + 1, Len(id))
         IN IF RevCount(id) = 1 /\ Len(rev) = 1 /\ IsNum(rev[1])
            THEN [spec EXCEPT !.spec_id = SubSeq(id, 1, i - 1) \o <<"_rev", NumStr(StrInt(rev[1]) + 1)>>]
            ELSE [spec EXCEPT !.spec_id = ValueError]

\* models/intent_spec.py, ExtractedField and IntentSpec (the spec the chains use)
ExtractedField(field_name, description) ==
    [field_name |-> field_name, description |-> description]

ChainIntentSpec(user_query, urls, fields) ==
    [spec_id |-> BaseId,
     original_user_query |-> user_query,
     target_urls_or_sites |-> urls,
     data_to_extract |-> fields,
     constraints |-> EmptyDict,
     url_health_status |-> EmptyDict,
     validation_status |-> "pending",
     critique_history |-> <<>>,
     clarification_questions_for_user |-> <<>>,
     human_approval_notes |-> None]

\* chains/validation_chain.py, ValidationResult
ChainValidation(is_valid, issues, clarification_needed, clarification_questions) ==
    [is_valid |-> is_valid,
     issues |-> issues,
     clarification_needed |-> clarification_needed,
     clarification_questions |-> clarification_questions]

\* A validation that also drops from the spec the target URLs found unhealthy.
validate_intent_spec_pruning(spec, url_health, verdict) ==
    LET bad == SelectSeq(url_health, LAMBDA item : item[2] # "healthy")
        is_valid == verdict # None /\ Val(verdict).is_valid /\ bad = <<>>
        all_issues == (IF verdict = None THEN <<>> ELSE Val(verdict).issues)
                      \o [i \in 1..Len(bad) |-> <<"URL issue: ">> \o bad[i][1]]
        updated_spec ==
            [spec EXCEPT
               !.target_urls_or_sites =
                   SelectSeq(@, LAMBDA url : \A i \in 1..Len(bad) : bad[i][1] # url),
               !.url_health_status = url_health,
               !.validation_status =
                   IF is_valid THEN "validated_by_llm_judge" ELSE "needs_revision",
               !.critique_history = IF is_valid THEN @ ELSE @ \o all_issues]
    IN <<updated_spec, is_valid, all_issues>>

\* chains/validation_chain.py, validate_intent_spec: url_health is what
\* validate_urls answers, verdict is the judge's parsed answer or None when the
\* call or the parse raises. Gives <<updated_spec, is_valid, all_issues>>.
validate_intent_spec(spec, url_health, verdict) ==
    LET bad == SelectSeq(url_health, LAMBDA item : item[2] # "healthy")
        url_issues == [i \in 1..Len(bad) |->
                          <<"URL issue: ">> \o bad[i][1] \o <<" is ", bad[i][2]>>]
        validation_obj ==
            IF verdict = None
            THEN ChainValidation(FALSE, <<<<"Validation error: ", "e">>>>, TRUE,
                                 <<<<"Could you provide more details?">>>>)
            ELSE Val(verdict)
        all_issues == validation_obj.issues \o url_issues
        is_valid == validation_obj.is_valid /\ url_issues = <<>>
        updated_spec ==
            [spec EXCEPT
               !.url_health_status = url_health,
               !.validation_status =
                   IF is_valid THEN "validated_by_llm_judge" ELSE "needs_revision",
               !.critique_history = IF is_valid THEN @ ELSE @ \o all_issues,
               !.clarification_questions_for_user =
                   IF validation_obj.clarification_needed
                      /\ validation_obj.clarification_questions # <<>>
                   THEN validation_obj.clarification_questions ELSE @]
    IN <<updated_spec, is_valid, all_issues>>

\* A change of changes_to_make: a dict with a "type" and the keys that type reads.
Change(type, url, field_name, description) ==
    [type |-> type, url |-> url, urls |-> <<>>, field_name |-> field_name,
     description |-> description, new_name |-> <<>>, key |-> <<>>, value |-> None]

RemoveFirst(list, x) ==
    IF x \notin Range(list) THEN list
    ELSE LET i == CHOOSE k \in 1..Len(list) :
                     list[k] = x /\ \A j \in 1..(k - 1) : list[j] # x
         IN SubSeq(list, 1, i - 1) \o SubSeq(list, i + 1, Len(list))

\* chains/feedback_chain.py, _apply_url_changes
apply_url_changes(spec, change) ==
    IF change.type = "add_url"
    THEN IF change.url # <<>> /\ change.url \notin Range(spec.target_urls_or_sites)
         THEN [spec EXCEPT !.target_urls_or_sites = Append(@, change.url)]
         ELSE spec
    ELSE IF change.type = "remove_url"
    THEN [spec EXCEPT !.target_urls_or_sites = RemoveFirst(@, change.url)]
    ELSE IF change.type = "replace_urls" /\ change.urls # <<>>
    THEN [spec EXCEPT !.target_urls_or_sites = change.urls]
    ELSE spec

\* chains/feedback_chain.py, _apply_field_changes
apply_field_changes(spec, change) ==
    LET fields == spec.data_to_extract
        names == {fields[i].field_name : i \in 1..Len(fields)}
    IN IF change.type = "add_field"
       THEN IF change.field_name # <<>> /\ change.description # <<>>
               /\ change.field_name \notin names
            THEN [spec EXCEPT !.data_to_extract =
                     Append(@, ExtractedField(change.field_name, change.description))]
            ELSE spec
       ELSE IF change.type = "remove_field"
       THEN IF change.field_name # <<>>
            THEN [spec EXCEPT !.data_to_extract =
                     SelectSeq(@, LAMBDA f : f.field_name # change.field_name)]
            ELSE spec
       ELSE IF change.type = "update_field" /\ change.field_name \in names
               /\ change.field_name # <<>>
       THEN LET i == CHOOSE k \in 1..Len(fields) :
                        /\ fields[k].field_name = change.field_name
                        /\ \A j \in 1..(k - 1) : fields[j].field_name # change.field_name
                field == ExtractedField(
                    IF change.new_name # <<>> THEN change.new_name ELSE fields[i].field_name,
                    IF change.description # <<>> THEN change.description
                    ELSE fields[i].description)
            IN [spec EXCEPT !.data_to_extract[i] = field]
       ELSE spec

\* chains/feedback_chain.py, _apply_constraint_changes
apply_constraint_changes(spec, change) ==
    IF change.type = "add_constraint"
    THEN IF change.key # <<>> /\ change.value # None
         THEN [spec EXCEPT !.constraints = DictSet(@, change.key, Val(change.value))]
         ELSE spec
    ELSE IF change.type = "remove_constraint"
    THEN [spec EXCEPT !.constraints = SelectSeq(@, LAMBDA item : item[1] # change.key)]
    ELSE spec

\* chains/feedback_chain.py, _add_reasoning_to_history
add_reasoning_to_history(spec, reasoning) ==
    IF reasoning = <<>> THEN spec
    ELSE [spec EXCEPT !.critique_history =
             Append(@, <<"Feedback applied: ">> \o reasoning)]

RECURSIVE ApplyChangesUntilUnknown(_, _)
\* The loop leaving at the first change of unknown type.
ApplyChangesUntilUnknown(spec, changes) ==
    IF changes = <<>> THEN spec
    ELSE LET change == Head(changes)
         IN IF change.type \in {"add_url", "remove_url", "replace_urls"}
            THEN ApplyChangesUntilUnknown(apply_url_changes(spec, change), Tail(changes))
            ELSE IF change.type \in {"add_field", "remove_field", "update_field"}
            THEN ApplyChangesUntilUnknown(apply_field_changes(spec, change), Tail(changes))
            ELSE IF change.type \in {"add_constraint", "remove_constraint"}
            THEN ApplyChangesUntilUnknown(apply_constraint_changes(spec, change), Tail(changes))
            ELSE spec

RECURSIVE ApplyChanges(_, _)
\* for change in feedback_result.get("changes_to_make", []): ...
ApplyChanges(spec, changes) ==
    IF changes = <<>> THEN spec
    ELSE LET change == Head(changes)
             updated_spec ==
                 IF change.type \in {"add_url", "remove_url", "replace_urls"}
                 THEN apply_url_changes(spec, change)
                 ELSE IF change.type \in {"add_field", "remove_field", "update_field"}
                 THEN apply_field_changes(spec, change)
                 ELSE IF change.type \in {"add_constraint", "remove_constraint"}
                 THEN apply_constraint_changes(spec, change)
                 ELSE spec
         IN ApplyChanges(updated_spec, Tail(changes))

\* chains/feedback_chain.py, apply_feedback_to_spec
apply_feedback_to_spec(feedback_result, existing_spec) ==
    add_reasoning_to_history(
        ApplyChanges(update_spec_revision(existing_spec), feedback_result.changes_to_make),
        feedback_result.reasoning)

(***************************************************************************)
(* Sequences of entity operations (SpecEntities): pc names the entity or   *)
(* node the operations are applied to, st is its current value.            *)
(***************************************************************************)
MaxCritiques == 2   \* issues handed to one critique accumulation

CritiqueTexts == {<<"URL ", "is down">>, <<"url ", "is down">>, <<"no price">>}
CritiqueLists == SeqUpTo(CritiqueTexts, MaxCritiques)

EntityContext == [ModelContextStore EXCEPT !.user_query = Some(Query)]
EntitySpec == ModelIntentSpec(BaseId, <<UrlA>>, <<"price">>)

InitEntities ==
    /\ \/ pc = "old_state.ContextStore" /\ st = NewContext(Query)
       \/ pc = "state.ContextStore" /\ st = ContextStore(Query)
       \/ pc = "models.ContextStore" /\ st = EntityContext
       \/ pc = "nodes.add_critique"
            /\ st = [AppState(EntityContext) EXCEPT !.intent_spec = Some(EntitySpec)]
       \/ pc = "state.IntentSpec" /\ st = create_new(Query, <<UrlA>>, <<"price">>, EmptyDict)
       \/ pc = "feedback_chain"
            /\ st = ChainIntentSpec(Query, <<UrlA>>, <<ExtractedField(<<"price">>, <<"the price">>)>>)
       \/ pc = "nodes.post_process_feedback"
            /\ st = AppState([mc_update_last_spec(EntityContext, EntitySpec) EXCEPT
                                 !.is_feedback = TRUE])
       \/ pc = "human_nodes.process_rejection"
            /\ st = [GraphState(NewContext(Query)) EXCEPT
                        !.current_intent_spec =
                            Some(create_new(Query, <<UrlA>>, <<"price">>, EmptyDict)),
                        !.needs_human_review = TRUE]
    /\ judge_calls = 0
    /\ last = "init"
    /\ decision = None

\* One operation on the entity: st becomes next_st and last names the operation.
Apply(entity, name, next_st) ==
    /\ pc = entity
    /\ st' = next_st
    /\ last' = name
    /\ UNCHANGED <<pc, judge_calls, decision>>

OldAddCritiqueHints ==
    /\ pc = "old_state.ContextStore"
    /\ \E new_hints \in CritiqueLists :
          Apply("old_state.ContextStore", "add_critique_hints",
                old_add_critique_hints(st, new_hints))

AddCritiqueHints ==
    /\ pc = "state.ContextStore"
    /\ \E new_hints \in CritiqueLists :
          /\ Len(st.critique_hints) + Len(new_hints) <= MaxHints
          /\ Apply("state.ContextStore", "add_critique_hints",
                   add_critique_hints(st, new_hints))

ModelAddCritique ==
    /\ pc = "models.ContextStore"
    /\ st.processing_attempt < MaxAttempt
    /\ \E critique \in CritiqueTexts :
          Apply("models.ContextStore", "add_critique", mc_add_critique(st, critique))

ModelSetUserQuery ==
    /\ pc = "models.ContextStore"
    /\ \E is_feedback \in BOOLEAN :
          Apply("models.ContextStore", "set_user_query",
                mc_set_user_query(st, FeedbackQuery, is_feedback))

\* add_critique runs on the state validation left: a result with its issues and
\* the URL health map.
NodesAddCritique ==
    /\ pc = "nodes.add_critique"
    /\ st.context.processing_attempt < MaxAttempt
    /\ \E issues \in CritiqueLists, url_health \in HealthMaps :
          Apply("nodes.add_critique", "add_critique",
                n_add_critique([st EXCEPT
                    !.validation_result = Some(LLMValidation(FALSE, issues)),
                    !.url_health_status = url_health]))

CreateRevision ==
    /\ pc = "state.IntentSpec"
    /\ RevNumber(st.spec_id) < MaxRev
    /\ \E updates \in FeedbackOutputs :
          Apply("state.IntentSpec", "create_revision", create_revision(st, updates))

UpdateSpecRevision ==
    /\ pc = "feedback_chain"
    /\ RevNumber(st.spec_id) < MaxRev
    /\ Apply("feedback_chain", "_update_spec_revision", update_spec_revision(st))

\* What the judge chain answers (None: the call or its parse raises).
ChainVerdicts ==
    {None,
     Some(ChainValidation(TRUE, <<>>, FALSE, <<>>)),
     Some(ChainValidation(FALSE, <<<<"no price">>>>, TRUE, <<<<"which price?">>>>))}

\* main.py, IntentInferenceAgent._validate_spec: the spec kept as last_spec
\* becomes the one validate_intent_spec returns.
ValidateIntentSpec ==
    /\ pc = "feedback_chain"
    /\ Len(st.critique_history) < MaxRev
    /\ \E probe \in ProbeResults(st.target_urls_or_sites), verdict \in ChainVerdicts :
          Apply("feedback_chain", "validate_intent_spec",
                validate_intent_spec(st, ZipDict(EmptyDict, st.target_urls_or_sites, probe),
                                     verdict)[1])

\* Parsed outputs of the feedback chain.
ChainFeedbackResults ==
    [changes_to_make : {<<>>,
                        <<Change("add_url", UrlBare, <<>>, <<>>)>>,
                        <<Change("add_field", <<>>, <<"rating">>, <<"stars">>)>>,
                        <<Change("rename", <<>>, <<>>, <<>>)>>},
     reasoning : {<<>>, <<"why">>}]

\* main.py, IntentInferenceAgent._process_feedback: last_spec is replaced by
\* apply_feedback_to_spec(feedback_output, last_spec).
ApplyFeedbackToSpec ==
    /\ pc = "feedback_chain"
    /\ RevNumber(st.spec_id) < MaxRev
    /\ Len(st.critique_history) < MaxRev
    /\ \E feedback_result \in ChainFeedbackResults :
          Apply("feedback_chain", "apply_feedback_to_spec",
                apply_feedback_to_spec(feedback_result, st))

FeedbackPool ==
    {None} \cup
    {Some(LLMFeedback(u, f, r)) :
        u \in {<<>>, <<UrlBare>>}, f \in {<<>>, <<"rating">>}, r \in {<<>>, <<"why">>}}

PostProcessFeedback ==
    /\ pc = "nodes.post_process_feedback"
    /\ RevNumber(Val(st.context.last_spec).spec_id) < MaxRev
    /\ Len(Val(st.context.last_spec).fields_to_extract) < MaxRev
    /\ Len(Val(st.context.last_spec).critique_history) < MaxRev
    /\ \E feedback_output \in FeedbackPool :
          Apply("nodes.post_process_feedback", "post_process_feedback",
                n_post_process_feedback([st EXCEPT !.feedback_output = feedback_output]))

\* The human rejects the specification under review; the text may be empty.
SubmitRejection ==
    /\ pc = "human_nodes.process_rejection"
    /\ "raised" \notin DOMAIN st
    /\ st.human_approval = None
    /\ \E feedback \in FeedbackTexts :
          Apply("human_nodes.process_rejection", "submit_rejection",
                [st EXCEPT !.human_approval = Some(FALSE),
                           !.user_feedback = Some(feedback)])

HumanProcessRejection ==
    /\ pc = "human_nodes.process_rejection"
    /\ "raised" \notin DOMAIN st
    /\ st.human_approval = Some(FALSE)
    /\ st.context.iteration_count < MaxIter
    /\ Apply("human_nodes.process_rejection", "process_rejection", process_rejection(st))

NextEntities ==
    \/ OldAddCritiqueHints
    \/ AddCritiqueHints
    \/ ModelAddCritique
    \/ ModelSetUserQuery
    \/ NodesAddCritique
    \/ CreateRevision
    \/ UpdateSpecRevision
    \/ PostProcessFeedback
    \/ ValidateIntentSpec
    \/ ApplyFeedbackToSpec
    \/ SubmitRejection
    \/ HumanProcessRejection

SpecEntities == InitEntities /\ [][NextEntities]_vars

NoCaseDuplicates(hints) ==
    \A i, j \in 1..Len(hints) : i < j => Lower(hints[i]) # Lower(hints[j])

\* C8: after any sequence of critique-hint additions to a context, no two
\* entries of critique_hints are equal ignoring letter case.
C8_NoCaseInsensitiveDuplicates ==
    /\ pc \in {"old_state.ContextStore", "state.ContextStore", "models.ContextStore"}
       => NoCaseDuplicates(st.critique_hints)
    /\ pc = "nodes.add_critique" => NoCaseDuplicates(st.context.critique_hints)

\* C9: each invocation of the critique accumulator (the add_critique node)
\* changes the attempt counter by exactly +1, whatever the number of issues in
\* the validation result.
C9_CounterStepsByOne ==
    [][pc = "nodes.add_critique"
         => st'.context.processing_attempt = st.context.processing_attempt + 1]_vars

\* C10: every revision of a spec raises the revision number its id carries by
\* exactly one (X, X_rev1, X_rev2, ...): none is reused or skipped.
C10_RevisionNumbering ==
    [][/\ (pc \in {"state.IntentSpec", "feedback_chain"}
           /\ last' \in {"create_revision", "_update_spec_revision", "apply_feedback_to_spec"})
          => RevNumber(st'.spec_id) = RevNumber(st.spec_id) + 1
       /\ (pc = "nodes.post_process_feedback" /\ st'.feedback_output # None)
          => RevNumber(Val(st'.context.last_spec).spec_id)
               = RevNumber(Val(st.context.last_spec).spec_id) + 1]_vars

\* C11: every revision produced by applying feedback starts unvalidated: its
\* validation_status is pending and its clarification questions are empty,
\* whatever they were on the spec that was revised.
C11_RevisionStartsUnvalidated ==
    [][/\ (pc = "feedback_chain" /\ last' = "apply_feedback_to_spec")
          => /\ st'.validation_status = "pending"
             /\ st'.clarification_questions_for_user = <<>>
       /\ (pc = "state.IntentSpec" /\ last' = "create_revision")
          => st'.validation_status = "pending"
       /\ (pc = "nodes.post_process_feedback" /\ st'.feedback_output # None)
          => /\ Val(st'.intent_spec).validation_status = "pending"
             /\ Val(st'.intent_spec).clarification_questions = <<>>]_vars

\* C12: when the user text is empty, the extraction step leaves a fallback
\* specification whose validation_status is error, with needs_human_review set.
C12_EmptyQueryFallback ==
    (last = "process_new_intent" /\ st.context.user_query = <<>>)
    => /\ st.current_intent_spec # None
       /\ Val(st.current_intent_spec).validation_status = "error"
       /\ st.needs_human_review

(***************************************************************************)
(* The application graph of intent_inference/graph/app.py over the nodes   *)
(* of nodes_simple.py (SpecApp). st is the frame of process_input: its     *)
(* arguments and the graph state; decision is what process_input gave back *)
(* to its caller; judge_calls counts the calls made through                *)
(* call_llm_with_retry.                                                    *)
(***************************************************************************)
MaxCalls == 8       \* collaborator calls explored in one process_input
MaxTries == 3       \* invocations of one chain whose outcomes are enumerated

ExampleUrl == <<"https://", "example.com">>

\* The fallbacks the nodes use when the answer cannot be parsed.
IntentFallbackOutput ==
    [target_urls |-> <<ExampleUrl>>,
     fields_to_extract |-> <<"content">>,
     technical_requirements |-> <<"html_parsing">>,
     constraints |-> EmptyDict]

ValidationFallback ==
    [is_valid |-> FALSE,
     critique |-> << <<"Error validating intent">> >>,
     clarification_questions |-> << <<"Can you please clarify your request?">> >>]

\* utils/chain_helpers.py, call_llm_with_retry as the nodes import it: the second
\* definition of that name, which invokes the chain once and gives back a str
\* (result.content or str(result)); an exception of the chain is re-raised.
\* The nodes then parse json.loads(result.content): a str has no attribute
\* content, so the parse always takes its except branch and yields the fallback.
ParsedOrFallback(answer, fallback) == fallback

Falsy(opt) == opt = None \/ Val(opt) = <<>>

\* What the chain would do on its first, second, ... invocation.
Outcomes == [1..MaxTries -> {"fail", "ok"}]

\* utils/chain_helpers.py, call_llm_with_retry (the definition the name is bound
\* to): chain.invoke once, and an exception is logged and raised again.
call_llm_with_retry(outcomes) ==
    [outcomes |-> outcomes, attempts |-> 1, raised |-> outcomes[1] = "fail"]

\* nodes_simple.py, process_new_intent; answer: the chain's answer, raises: the
\* chain raised.
ns_process_new_intent(state, answer, raises) ==
    IF Falsy(state.context.user_query) THEN state
    ELSE IF raises THEN state
    ELSE [state EXCEPT !.intent_output = Some(ParsedOrFallback(answer, IntentFallbackOutput))]

\* nodes_simple.py, process_feedback
ns_process_feedback(state, answer, raises) ==
    IF Falsy(state.context.user_query) \/ state.context.last_spec = None THEN state
    ELSE IF raises THEN state
    ELSE [state EXCEPT !.feedback_output =
             Some(ParsedOrFallback(answer,
                      [changes_required |-> FALSE,
                       updated_spec |-> Val(state.context.last_spec)]))]

\* nodes_simple.py, post_process_intent (a field is kept as its name)
ns_post_process_intent(state) ==
    IF state.intent_output = None THEN state
    ELSE LET intent_output == Val(state.intent_output)
         IN [state EXCEPT !.intent_spec =
                Some([ModelIntentSpec(BaseId, intent_output.target_urls,
                                      intent_output.fields_to_extract) EXCEPT
                         !.original_query = Val(state.context.user_query),
                         !.technical_requirements = intent_output.technical_requirements,
                         !.constraints = intent_output.constraints])]

\* nodes_simple.py, post_process_feedback
ns_post_process_feedback(state) ==
    IF state.feedback_output = None \/ state.context.last_spec = None THEN state
    ELSE LET feedback_output == Val(state.feedback_output)
         IN IF ~feedback_output.changes_required
            THEN [state EXCEPT !.intent_spec = state.context.last_spec]
            ELSE [state EXCEPT !.intent_spec =
                     Some([feedback_output.updated_spec EXCEPT
                              !.critique_history =
                                  Append(@, <<"User feedback: ">> \o Val(state.context.user_query)),
                              !.validation_status = "pending"])]

\* app.py, update_context_with_intent
update_context_with_intent(state) ==
    IF state.intent_spec = None THEN state
    ELSE [state EXCEPT !.context = mc_update_last_spec(@, Val(state.intent_spec))]

\* nodes_simple.py, validate_intent
ns_validate_intent(state, answer, raises) ==
    IF state.intent_spec = None THEN state
    ELSE IF raises
    THEN [state EXCEPT
            !.validation_result =
                Some([is_valid |-> FALSE,
                      critique |-> << <<"Error during validation">> >>,
                      clarification_questions |-> <<>>]),
            !.intent_spec =
                Some([Val(@) EXCEPT
                        !.validation_status = "needs_clarification",
                        !.critique_history = Append(@, <<"Error during validation">>),
                        !.clarification_questions =
                            << <<"Could you provide more details about your request?">> >>])]
    ELSE LET parsed_result == ParsedOrFallback(answer, ValidationFallback)
         IN [state EXCEPT
               !.validation_result = Some(parsed_result),
               !.intent_spec =
                   Some([Val(@) EXCEPT
                           !.validation_status =
                               IF parsed_result.is_valid THEN "valid" ELSE "needs_clarification",
                           !.critique_history = AppendMissing(@, parsed_result.critique),
                           !.clarification_questions =
                               IF parsed_result.clarification_questions # <<>>
                               THEN parsed_result.clarification_questions ELSE @])]

\* nodes_simple.py, add_critique
ns_add_critique(state) ==
    IF state.intent_spec = None THEN state
    ELSE LET intent_spec == Val(state.intent_spec)
             critiques == IF state.validation_result # None
                          THEN Val(state.validation_result).critique
                          ELSE intent_spec.critique_history
         IN [state EXCEPT !.context =
                [@ EXCEPT !.critique_hints = critiques,
                          !.last_spec = Some(intent_spec),
                          !.processing_attempt = @ + 1]]

\* nodes_simple.py, mark_for_human_review
ns_mark_for_human_review(state) ==
    IF state.intent_spec = None THEN state
    ELSE LET intent_spec == Val(state.intent_spec)
             url_health == intent_spec.url_health_status
             bad == SelectSeq(url_health, LAMBDA item : item[2] # "healthy")
             unhealthy_urls == [i \in 1..Len(bad) |-> bad[i][1]]
         IN [state EXCEPT !.intent_spec =
                Some([intent_spec EXCEPT
                        !.validation_status =
                            IF @ = "valid" THEN "needs_human_approval" ELSE "needs_human_review",
                        !.critique_history =
                            IF unhealthy_urls # <<>>
                            THEN Append(@, <<"The following URLs have accessibility issues: ">>
                                           \o Join(unhealthy_urls))
                            ELSE @])]

\* app.py, decision_router
decision_router(state) ==
    IF ns_make_decision(state) = "error" THEN "human_review" ELSE ns_make_decision(state)

\* What process_input hands back: a (spec, needs_human_input) pair, or an
\* exception that leaves it.
Returned(intent_spec, needs_human_input) ==
    [raised |-> FALSE, intent_spec |-> intent_spec, needs_human_input |-> needs_human_input]

Raised == [raised |-> TRUE, intent_spec |-> None, needs_human_input |-> FALSE]

\* app.py, process_input: the part before the graph runs.
AppFrame(user_input, previous_spec, is_feedback) ==
    LET context == [ModelContextStore EXCEPT
                       !.user_query = Some(user_input), !.is_feedback = is_feedback]
    IN [user_input |-> user_input,
        previous_spec |-> previous_spec,
        last_call |-> None,
        state |-> AppState(IF previous_spec # None
                           THEN mc_update_last_spec(context, Val(previous_spec))
                           ELSE context)]

PreviousSpecs ==
    {None,
     Some([ModelIntentSpec(BaseId, <<UrlA>>, <<"price">>) EXCEPT
              !.validation_status = "needs_human_approval"])}

InitApp ==
    /\ pc = "initialize_memory"
    /\ st \in {AppFrame(user_input, previous_spec, is_feedback) :
                  user_input \in Queries, previous_spec \in PreviousSpecs,
                  is_feedback \in BOOLEAN}
    /\ judge_calls = 0
    /\ last = "init"
    /\ decision = None

\* A node of the graph has run: the state becomes next_state and the edge
\* leads to node next.
AppStep(node, next_state, next) ==
    /\ st' = [st EXCEPT !.state = next_state]
    /\ pc' = next
    /\ last' = node

\* The spec object the state and the context share is one object: a node that
\* changes state["intent_spec"] in place changes context.last_spec with it
\* once update_context has stored it there.
Shared(state) ==
    IF state.intent_spec = None THEN state
    ELSE [state EXCEPT !.context.last_spec = state.intent_spec]

InitializeMemory ==
    /\ pc = "initialize_memory"
    /\ AppStep("initialize_memory", st.state, "branch_logic")
    /\ UNCHANGED <<judge_calls, decision>>

BranchLogic ==
    /\ pc = "branch_logic"
    /\ AppStep("branch_logic", st.state, ns_branch_logic(st.state))
    /\ UNCHANGED <<judge_calls, decision>>

\* A node that reaches its call: last_call records what call_llm_with_retry did
\* with the chain, judge_calls counts the invocations.
AppCall(node, call, next_state, next) ==
    /\ st' = [st EXCEPT !.state = next_state, !.last_call = Some(call)]
    /\ pc' = next
    /\ last' = node
    /\ judge_calls' = judge_calls + call.attempts

AppProcessNewIntent ==
    /\ pc = "process_new_intent"
    /\ judge_calls < MaxCalls
    /\ IF Falsy(st.state.context.user_query)
       THEN /\ AppStep("process_new_intent",
                       ns_process_new_intent(st.state, <<"answer">>, FALSE),
                       "post_process_intent")
            /\ UNCHANGED judge_calls
       ELSE \E outcomes \in Outcomes :
               LET call == call_llm_with_retry(outcomes)
               IN AppCall("process_new_intent", call,
                          ns_process_new_intent(st.state, <<"answer">>, call.raised),
                          "post_process_intent")
    /\ UNCHANGED decision

AppProcessFeedback ==
    /\ pc = "process_feedback"
    /\ judge_calls < MaxCalls
    /\ IF Falsy(st.state.context.user_query) \/ st.state.context.last_spec = None
       THEN /\ AppStep("process_feedback",
                       ns_process_feedback(st.state, <<"answer">>, FALSE),
                       "post_process_feedback")
            /\ UNCHANGED judge_calls
       ELSE \E outcomes \in Outcomes :
               LET call == call_llm_with_retry(outcomes)
               IN AppCall("process_feedback", call,
                          ns_process_feedback(st.state, <<"answer">>, call.raised),
                          "post_process_feedback")
    /\ UNCHANGED decision

AppPostProcessIntent ==
    /\ pc = "post_process_intent"
    /\ AppStep("post_process_intent", ns_post_process_intent(st.state), "update_context")
    /\ UNCHANGED <<judge_calls, decision>>

AppPostProcessFeedback ==
    /\ pc = "post_process_feedback"
    /\ AppStep("post_process_feedback", ns_post_process_feedback(st.state), "update_context")
    /\ UNCHANGED <<judge_calls, decision>>

UpdateContext ==
    /\ pc = "update_context"
    /\ AppStep("update_context", update_context_with_intent(st.state), "validate_intent")
    /\ UNCHANGED <<judge_calls, decision>>

AppValidateIntent ==
    /\ pc = "validate_intent"
    /\ judge_calls < MaxCalls
    /\ IF st.state.intent_spec = None
       THEN /\ AppStep("validate_intent", st.state, decision_router(st.state))
            /\ UNCHANGED judge_calls
       ELSE \E outcomes \in Outcomes :
               LET call == call_llm_with_retry(outcomes)
                   next_state == Shared(ns_validate_intent(st.state, <<"answer">>, call.raised))
               IN AppCall("validate_intent", call, next_state, decision_router(next_state))
    /\ UNCHANGED decision

AppAddCritique ==
    /\ pc = "add_critique"
    /\ AppStep("add_critique", ns_add_critique(st.state), "branch_logic")
    /\ UNCHANGED <<judge_calls, decision>>

MarkForHumanReview ==
    /\ pc = "human_review"
    /\ AppStep("human_review", Shared(ns_mark_for_human_review(st.state)), "END")
    /\ UNCHANGED <<judge_calls, decision>>

NeedsHumanInput(intent_spec) ==
    \/ intent_spec.validation_status
         \in {"needs_clarification", "needs_human_review", "needs_human_approval"}
    \/ Len(intent_spec.clarification_questions) > 0

\* app.py, process_input: the graph ended, its result is handed back.
ProcessInputReturn ==
    /\ pc = "END"
    /\ decision' = Some(Returned(st.state.intent_spec,
                                 IF st.state.intent_spec = None THEN FALSE
                                 ELSE NeedsHumanInput(Val(st.state.intent_spec))))
    /\ pc' = "returned"
    /\ last' = "process_input"
    /\ UNCHANGED <<st, judge_calls>>

AppNodes ==
    {"initialize_memory", "branch_logic", "process_new_intent", "process_feedback",
     "post_process_intent", "post_process_feedback", "update_context", "validate_intent",
     "add_critique", "human_review"}

\* The graph runtime, which is not part of the sources, raises out of
\* graph.ainvoke (the nodes themselves catch what their collaborators raise).
GraphRaises ==
    /\ pc \in AppNodes
    /\ pc' = "except"
    /\ last' = "ainvoke raised"
    /\ UNCHANGED <<st, judge_calls, decision>>

\* app.py, process_input: the except branch. The fallback is built as
\* IntentSpec(id=, user_query=, target_urls=, fields_to_extract=, ...) on the
\* IntentSpec of intent_inference/models/intent_spec.py, whose required fields
\* original_user_query, target_urls_or_sites and data_to_extract are then
\* missing: the constructor raises and the exception leaves process_input.
ProcessInputExcept ==
    /\ pc = "except"
    /\ decision' = IF st.previous_spec # None
                   THEN Some(Returned(st.previous_spec, TRUE))
                   ELSE Some(Raised)
    /\ pc' = "returned"
    /\ last' = "process_input"
    /\ UNCHANGED <<st, judge_calls>>

NextApp ==
    \/ InitializeMemory
    \/ BranchLogic
    \/ AppProcessNewIntent
    \/ AppProcessFeedback
    \/ AppPostProcessIntent
    \/ AppPostProcessFeedback
    \/ UpdateContext
    \/ AppValidateIntent
    \/ AppAddCritique
    \/ MarkForHumanReview
    \/ ProcessInputReturn
    \/ GraphRaises
    \/ ProcessInputExcept

SpecApp == InitApp /\ [][NextApp]_vars

\* C13: whatever the collaborators do (any of their calls may fail) while the
\* graph runs to its end, process_input hands back a specification that is not
\* null.
C13_ProcessInputReturnsSpec ==
    [][(pc = "END" /\ pc' = "returned")
          => (~Val(decision').raised /\ Val(decision').intent_spec # None)]_vars

\* C14: when the extraction collaborator fails or answers something that cannot
\* be parsed, the extraction step returns normally with a degraded
\* specification: validation_status is error and the critique trail holds the
\* one entry describing the failure.
C14_ExtractionFailureDegrades ==
    [][\A result \in GraphSchemas :
          (/\ pc = "process_new_intent"
           /\ st.context.user_query # <<>>
           /\ st' = gn_process_new_intent(st, result, TRUE))
          => /\ st'.current_intent_spec # None
             /\ Val(st'.current_intent_spec).validation_status = "error"
             /\ Val(st'.current_intent_spec).critique_history # None
             /\ Len(Val(Val(st'.current_intent_spec).critique_history)) = 1]_vars

\* C15: when the judge call fails, validation still returns normally and its
\* result is a ValidationResult with is_valid false, status invalid and the
\* failure message among its issues.
C15_JudgeFailureIsInvalidResult ==
    [][(/\ pc = "validate_intent"
        /\ st.current_intent_spec # None
        /\ \E probe \in ProbeResults(Val(st.current_intent_spec).target_urls_or_sites),
              verdict \in JudgeVerdicts :
              st' = old_validate_intent(st, probe, verdict, TRUE)[1])
       => /\ st'.validation_result # None
          /\ ~Val(st'.validation_result).is_valid
          /\ Val(st'.validation_result).status = "invalid"
          /\ Val(st'.validation_result).issues # <<>>]_vars

\* C16: when the collaborator fails during a revision, the step gives back the
\* existing specification (same id, URLs, fields and constraints) with one more
\* critique entry noting the failure: the state is never left without the
\* prior spec.
C16_RevisionFailureKeepsSpec ==
    [][(/\ pc = "process_feedback"
        /\ st.context.last_spec # None
        /\ \E llm_output \in FeedbackOutputs : st' = process_feedback(st, llm_output, TRUE))
       => /\ st'.current_intent_spec # None
          /\ LET prior == Val(st.context.last_spec)
                 kept == Val(st'.current_intent_spec)
             IN /\ kept.spec_id = prior.spec_id
                /\ kept.target_urls_or_sites = prior.target_urls_or_sites
                /\ kept.data_to_extract = prior.data_to_extract
                /\ kept.constraints = prior.constraints
                /\ kept.critique_history # prior.critique_history]_vars

\* C17: a call through call_llm_with_retry is attempted up to 3 times: when the
\* chain fails once and succeeds on the second attempt the call gives back that
\* second result (2 attempts, nothing raised), and no call makes more than 3
\* attempts.
C17_RetryUpToThree ==
    st.last_call # None
    => LET call == Val(st.last_call)
       IN /\ call.attempts <= 3
          /\ (call.outcomes[1] = "fail" /\ call.outcomes[2] = "ok")
             => (call.attempts = 2 /\ ~call.raised)

\* C18: when the workflow enters human review, the status of the spec is
\* needs_human_approval exactly when the latest verdict was valid, and
\* needs_human_review when review was forced on an invalid verdict.
C18_ReviewStatusFollowsVerdict ==
    (/\ last = "prepare_for_human_review"
     /\ st.current_intent_spec # None
     /\ st.validation_result # None)
    => LET status == Val(st.current_intent_spec).validation_status
           valid == Val(st.validation_result).is_valid
       IN /\ (status = "needs_human_approval") <=> valid
          /\ ~valid => status = "needs_human_review"

C20_RejectionWithoutDetailIsMarked ==
    [][(/\ pc = "human_nodes.process_rejection"
        /\ last' = "process_rejection"
        /\ "raised" \notin DOMAIN st
        /\ ~Truthy(st.user_feedback))
       => (/\ "raised" \notin DOMAIN st'
           /\ st'.context.iteration_count = st.context.iteration_count + 1
           /\ Len(st'.context.critique_hints) = Len(st.context.critique_hints) + 1)]_vars

(***************************************************************************)
(* The agent generation: main.py, IntentInferenceAgent over the mutable    *)
(* ContextStore of models/context.py.  Two agents are driven at once; the  *)
(* context stores live in a heap and each agent holds the address of its   *)
(* own.  pc is the pair of the agents' positions.                          *)
(***************************************************************************)
MaxAgentCalls == 2
MaxDepth == 4

Agents == {1, 2}

\* models/context.py, ContextStore.should_retry
should_retry(ctx) ==
    ctx.processing_attempt < ctx.max_attempts /\ Len(ctx.critique_hints) > 0

\* main.py, IntentInferenceAgent._is_feedback: an indicator occurs in the
\* lowered text (a text is a sequence of fragments, an indicator is a fragment).
feedback_indicators ==
    {"instead", "change", "modify", "update", "add", "remove",
     "replace", "not quite", "incorrect", "no, ", "actually", "but"}

is_feedback(user_input) ==
    \E k \in 1..Len(user_input) : LowerFrag(user_input[k]) \in feedback_indicators

UserInputs == {<<>>, Query, <<"add", " rating">>}

\* What the extraction chain answers: None when the call or the parse raises,
\* else the parsed dict.
AgentIntentOutputs ==
    {None,
     Some([target_urls |-> <<UrlA>>,
           data_to_extract |->
               <<[field_name |-> <<"price">>, description |-> <<"the price">>]>>]),
     Some([target_urls |-> <<UrlA>>])}

\* The same conversion giving the IntentSpec class the validation chain reads.
convert_to_chain_intent_spec(output, user_query) ==
    ChainIntentSpec(user_query, output.target_urls,
                    [k \in 1..Len(output.data_to_extract) |->
                        ExtractedField(output.data_to_extract[k].field_name,
                                       output.data_to_extract[k].description)])

\* chains/intent_chain.py, convert_to_intent_spec without an existing spec: the
\* IntentSpec of models/intent/intent_spec.py (original_query, target_urls,
\* fields_to_extract).
convert_to_intent_spec(output, user_query) ==
    LET extracted_fields ==
            [k \in 1..Len(output.data_to_extract) |->
                [name |-> output.data_to_extract[k].field_name,
                 description |-> output.data_to_extract[k].description]]
    IN [ModelIntentSpec(BaseId, output.target_urls, extracted_fields) EXCEPT
           !.original_query = user_query]

\* chains/validation_chain.py, validate_intent_spec as main.py calls it.  On a
\* spec without original_user_query and target_urls_or_sites the URL check and
\* the judge call both raise inside their try blocks, the default result asks
\* for clarification, and assigning clarification_questions_for_user, which that
\* spec class does not declare, raises out of the function.
validate_spec_call(spec, probe, verdict) ==
    IF "original_user_query" \notin DOMAIN spec
    THEN [raised |-> TRUE]
    ELSE LET answer == validate_intent_spec(
                           spec, ZipDict(EmptyDict, spec.target_urls_or_sites, probe), verdict)
         IN [raised |-> FALSE, updated_spec |-> answer[1],
             is_valid |-> answer[2], issues |-> answer[3]]

\* main.py, infer_intent, except branch
infer_intent_except(ctx, user_input, error) ==
    IF ctx.last_spec # None
    THEN LET spec == [Val(ctx.last_spec) EXCEPT
                         !.validation_status = "error",
                         !.critique_history = Append(@, <<"Error: ">> \o error)]
         IN [store |-> [ctx EXCEPT !.last_spec = Some(spec)],
             next |-> "returned",
             retried |-> FALSE,
             result |-> Some([spec |-> spec, is_valid |-> FALSE])]
    ELSE LET error_spec ==
                 [ChainIntentSpec(user_input, <<>>, <<>>) EXCEPT
                     !.validation_status = "error",
                     !.critique_history = <<<<"Failed to process intent: ">> \o error>>]
         IN [store |-> ctx,
             next |-> "returned",
             retried |-> FALSE,
             result |-> Some([spec |-> error_spec, is_valid |-> FALSE])]

\* main.py, infer_intent from its first line to the first await: set the query,
\* choose the path, and fail at once on an empty query.
enter_infer_intent(ctx, user_input) ==
    LET set == mc_set_user_query(ctx, user_input, FALSE)
        feedback == set.last_spec # None /\ is_feedback(user_input)
        chosen == [set EXCEPT !.is_feedback = feedback]
    IN IF user_input = <<>>
       THEN infer_intent_except(
                chosen, user_input,
                IF feedback
                THEN <<"Missing user feedback or previous specification in context">>
                ELSE <<"No user query available in context">>)
       ELSE [store |-> chosen,
             next |-> IF feedback THEN "_process_feedback" ELSE "_process_new_intent",
             retried |-> FALSE,
             result |-> None]

\* main.py, _process_new_intent after the chain answered, up to the await of
\* validate_intent_spec.
process_new_intent_step(ctx, user_input, intent_output) ==
    IF intent_output = None
    THEN infer_intent_except(ctx, user_input, <<"e">>)
    ELSE IF "data_to_extract" \notin DOMAIN Val(intent_output)
    THEN infer_intent_except(ctx, user_input, <<"'data_to_extract'">>)
    ELSE [store |-> mc_update_last_spec(
                        ctx, convert_to_intent_spec(Val(intent_output), Val(ctx.user_query))),
          next |-> "_validate_spec",
          retried |-> FALSE,
          result |-> None]

\* main.py, _process_feedback after the chain answered.
process_feedback_step(ctx, user_input, feedback_output) ==
    IF feedback_output = None
    THEN infer_intent_except(ctx, user_input, <<"e">>)
    ELSE [store |-> mc_update_last_spec(
                        ctx, apply_feedback_to_spec(Val(feedback_output), Val(ctx.last_spec))),
          next |-> "_validate_spec",
          retried |-> FALSE,
          result |-> None]

\* main.py, _validate_spec after validate_intent_spec answered, and the rest of
\* infer_intent: the retry is the recursive call, which runs to its own first
\* await.  may_recurse is the bound of the model on the depth of the recursion.
validate_spec_step(ctx, user_input, probe, verdict, may_recurse) ==
    LET call == validate_spec_call(Val(ctx.last_spec), probe, verdict)
    IN IF call.raised
       THEN infer_intent_except(ctx, user_input,
                <<"\"IntentSpec\" object has no field \"clarification_questions_for_user\"">>)
       ELSE LET updated == mc_update_last_spec(ctx, call.updated_spec)
                store == IF ~call.is_valid /\ call.issues # <<>>
                         THEN AddCritiques(updated, call.issues)
                         ELSE updated
            IN IF ~call.is_valid /\ should_retry(store) /\ may_recurse
               THEN [enter_infer_intent(store, user_input) EXCEPT !.retried = TRUE]
               ELSE [store |-> store,
                     next |-> "returned",
                     retried |-> FALSE,
                     result |-> Some([spec |-> call.updated_spec,
                                      is_valid |-> call.is_valid])]

\* Both agents are handed one and the same store.
AgentStoreShared(i) == 1

\* main.py, IntentInferenceAgent.__init__ without a context store: the agent
\* gets a ContextStore of its own, the i-th object of the heap.
AgentStore(i) == i

IntentInferenceAgent(i) ==
    [context_store |-> AgentStore(i),
     user_input |-> <<>>,
     calls |-> 0,
     retries |-> 0,
     result |-> None,
     alone |-> ModelContextStore,
     alone_result |-> None]

InitAgent ==
    /\ pc = [i \in Agents |-> "idle"]
    /\ st = [heap |-> [a \in Agents |-> ModelContextStore],
             agent |-> [i \in Agents |-> IntentInferenceAgent(i)]]
    /\ judge_calls = 0
    /\ last = "init"
    /\ decision = None

StoreOf(i) == st.heap[st.agent[i].context_store]

\* Agent i takes one step between two awaits: step is what the code computes
\* on the store the agent holds, alone_step the same code on the store the
\* agent would have were it the only one running.
AgentStep(i, name, step, alone_step, user_input, calls) ==
    /\ \E own \in {step}, alone \in {alone_step} :
          /\ pc' = [pc EXCEPT ![i] = own.next]
          /\ st' = [st EXCEPT
                      !.heap[st.agent[i].context_store] = own.store,
                      !.agent[i].user_input = user_input,
                      !.agent[i].calls = calls,
                      !.agent[i].retries = IF name = "infer_intent" THEN 0
                                           ELSE IF own.retried THEN @ + 1 ELSE @,
                      !.agent[i].result = own.result,
                      !.agent[i].alone = alone.store,
                      !.agent[i].alone_result = alone.result]
    /\ last' = name
    /\ UNCHANGED <<judge_calls, decision>>

\* A caller awaits infer_intent(user_input) on agent i.
InferIntent(i) ==
    /\ pc[i] \in {"idle", "returned"}
    /\ st.agent[i].calls < MaxAgentCalls
    /\ \E user_input \in UserInputs :
          AgentStep(i, "infer_intent",
                    enter_infer_intent(StoreOf(i), user_input),
                    enter_infer_intent(st.agent[i].alone, user_input),
                    user_input, st.agent[i].calls + 1)

\* The extraction chain of agent i answers.
AgentProcessNewIntent(i) ==
    /\ pc[i] = "_process_new_intent"
    /\ \E intent_output \in AgentIntentOutputs :
          AgentStep(i, "_process_new_intent",
                    process_new_intent_step(StoreOf(i), st.agent[i].user_input, intent_output),
                    process_new_intent_step(st.agent[i].alone, st.agent[i].user_input,
                                            intent_output),
                    st.agent[i].user_input, st.agent[i].calls)

\* The feedback chain of agent i answers.
AgentProcessFeedback(i) ==
    /\ pc[i] = "_process_feedback"
    /\ \E feedback_output \in {None} \cup {Some(r) : r \in ChainFeedbackResults} :
          AgentStep(i, "_process_feedback",
                    process_feedback_step(StoreOf(i), st.agent[i].user_input, feedback_output),
                    process_feedback_step(st.agent[i].alone, st.agent[i].user_input,
                                          feedback_output),
                    st.agent[i].user_input, st.agent[i].calls)

AgentUrls(spec) ==
    IF "target_urls_or_sites" \in DOMAIN spec THEN spec.target_urls_or_sites ELSE spec.target_urls

\* validate_intent_spec of agent i answers or raises.
AgentValidateSpec(i) ==
    /\ pc[i] = "_validate_spec"
    /\ StoreOf(i).last_spec # None
    /\ st.agent[i].alone.last_spec # None
    /\ \E probe \in ProbeResults(AgentUrls(Val(StoreOf(i).last_spec))),
          verdict \in ChainVerdicts :
          AgentStep(i, "_validate_spec",
                    validate_spec_step(StoreOf(i), st.agent[i].user_input, probe, verdict,
                                       st.agent[i].retries < MaxDepth),
                    validate_spec_step(st.agent[i].alone, st.agent[i].user_input, probe,
                                       verdict, st.agent[i].retries < MaxDepth),
                    st.agent[i].user_input, st.agent[i].calls)

\* The feedback path is written here for completeness; infer_intent never
\* takes it (set_user_query has just cleared last_spec), so it is no step of
\* NextAgent.
NextAgent ==
    \E i \in Agents :
        \/ InferIntent(i)
        \/ AgentProcessNewIntent(i)
        \/ AgentValidateSpec(i)

SpecAgent == InitAgent /\ [][NextAgent]_vars

\* The awaited collaborators of agent i answer: an await does not hang.
AgentRuns(i) == AgentProcessNewIntent(i) \/ AgentValidateSpec(i)

SpecAgentFair ==
    InitAgent /\ [][NextAgent]_vars /\ \A i \in Agents : WF_vars(AgentRuns(i))

\* C21: two conversations driven concurrently do not interfere: whenever an
\* agent has returned, its context store and the pair it returned are the ones
\* it would have produced running alone on the same inputs and collaborator
\* answers.
C21_ConversationsDoNotInterfere ==
    \A i \in Agents :
        pc[i] = "returned"
        => /\ StoreOf(i) = st.agent[i].alone
           /\ st.agent[i].result = st.agent[i].alone_result

\* Agent 1 has finished its call by a validation step taken while agent 2 was
\* in the middle of its own first call.
C21_FinishedWhileOtherInFlight ==
    /\ pc[1] = "returned"
    /\ pc[2] = "_validate_spec"
    /\ last = "_validate_spec"
    /\ st.agent[1].calls = 1
    /\ st.agent[2].calls = 1
    /\ st.agent[1].result # None

(***************************************************************************)
(* The URL health probers, one check at a time.  pc names the prober; st   *)
(* holds the URLs, the phase of the check of each position, the responses  *)
(* received, the status each check resolved to and the dict being built.   *)
(***************************************************************************)
MaxUrls == 2

Probers ==
    {"old_tools.check_urls_health", "tools.check_urls_health_sync",
     "nodes.check_url_health", "nodes_simple.check_url_health"}

ProbeUrlLists == SeqUpTo({UrlA, UrlBare}, MaxUrls) \ {<<>>}

\* What a request comes back with: Some(status code), or None for a network
\* error or a timeout (httpx raises).
StatusCodes == {200, 404}
Responses == {None} \cup {Some(code) : code \in StatusCodes}

\* intent_inference-old/graph/tools/url_health.py, _check_url_health
old_check_url_health(head) ==
    IF head # None /\ Val(head) < 400 THEN "healthy" ELSE "unhealthy"

\* intent_inference/graph/tools/url_health.py, check_urls_health_sync, loop body
sync_check_url_health(head) ==
    IF head # None /\ 200 <= Val(head) /\ Val(head) < 400 THEN "healthy" ELSE "unhealthy"

\* graph/nodes.py, check_url_health, loop body: HEAD, then GET when HEAD
\* answered 400 or more.
n_check_url_health(head, get) ==
    IF head = None THEN "error"
    ELSE IF Val(head) < 400 THEN "healthy"
    ELSE IF get = None THEN "error"
    ELSE IF Val(get) < 400 THEN "healthy" ELSE "unavailable"

\* graph/nodes_simple.py, check_url_health, loop body
ns_check_url_health(head) ==
    IF head = None THEN "error: e"
    ELSE IF Val(head) < 400 THEN "healthy"
    ELSE IF Val(head) = 404 THEN "error: status 404" ELSE "error: status 500"

CheckStatus(prober, head, get) ==
    CASE prober = "old_tools.check_urls_health" -> old_check_url_health(head)
      [] prober = "tools.check_urls_health_sync" -> sync_check_url_health(head)
      [] prober = "nodes.check_url_health" -> n_check_url_health(head, get)
      [] OTHER -> ns_check_url_health(head)

\* Whether the check of position i may begin: asyncio.gather runs every
\* coroutine to its first await in turn, the for loops begin a check only when
\* the one before it has resolved.
MayStart(prober, phase, i) ==
    IF prober = "old_tools.check_urls_health"
    THEN \A j \in 1..(i - 1) : phase[j] # "pending"
    ELSE \A j \in 1..(i - 1) : phase[j] = "done"

InitProber ==
    /\ pc \in Probers
    /\ \E urls \in ProbeUrlLists :
          st = [urls |-> urls,
                phase |-> [i \in 1..Len(urls) |-> "pending"],
                responses |-> [i \in 1..Len(urls) |-> <<>>],
                answers |-> [i \in 1..Len(urls) |-> "pending"],
                results |-> EmptyDict,
                returned |-> FALSE]
    /\ judge_calls = 0
    /\ last = "init"
    /\ decision = None

\* The request for one more URL is sent.
StartCheck ==
    /\ ~st.returned
    /\ \E i \in 1..Len(st.urls) :
          /\ st.phase[i] = "pending"
          /\ MayStart(pc, st.phase, i)
          /\ st' = [st EXCEPT !.phase[i] = "in_flight"]
    /\ last' = "start_check"
    /\ UNCHANGED <<pc, judge_calls, decision>>

\* A request in flight resolves; the loops record the status at once under the
\* URL with its scheme, gather keeps it for the zip.
CheckResolves ==
    /\ \E i \in 1..Len(st.urls), head \in Responses, get \in Responses :
          /\ st.phase[i] = "in_flight"
          /\ get # None => (pc = "nodes.check_url_health" /\ head # None /\ Val(head) >= 400)
          /\ LET status == CheckStatus(pc, head, get)
             IN st' = [st EXCEPT
                         !.phase[i] = "done",
                         !.responses[i] =
                             IF pc = "nodes.check_url_health" /\ head # None /\ Val(head) >= 400
                             THEN <<head, get>> ELSE <<head>>,
                         !.answers[i] = status,
                         !.results = IF pc = "old_tools.check_urls_health" THEN @
                                     ELSE DictSet(@, WithScheme(st.urls[i]), status)]
    /\ last' = "check_resolves"
    /\ UNCHANGED <<pc, judge_calls, decision>>

\* Every check has resolved: the prober gives its dict to the validation.
ProberReturns ==
    /\ ~st.returned
    /\ \A i \in 1..Len(st.urls) : st.phase[i] = "done"
    /\ st' = [st EXCEPT
                !.returned = TRUE,
                !.results = IF pc = "old_tools.check_urls_health"
                            THEN old_check_urls_health(st.urls, st.answers) ELSE @]
    /\ last' = "prober_returns"
    /\ UNCHANGED <<pc, judge_calls, decision>>

NextProber ==
    \/ StartCheck
    \/ CheckResolves
    \/ ProberReturns

SpecProber == InitProber /\ [][NextProber]_vars

\* C22: the per-URL checks run concurrently: while a URL is still to be
\* checked the prober can begin a check whatever the others are doing, and the
\* prober returns only when every check has resolved.
C22_ChecksRunConcurrently ==
    /\ (~st.returned /\ \E i \in 1..Len(st.urls) : st.phase[i] = "pending")
          => ENABLED StartCheck
    /\ st.returned => \A i \in 1..Len(st.urls) : st.phase[i] = "done"

\* C23: a check resolves to healthy only when a response with status below
\* 400 was received, to unhealthy whenever none was, and nothing but healthy,
\* unhealthy or unknown is written as a URL's status.
C23_StatusMapping ==
    /\ \A i \in 1..Len(st.urls) :
          st.phase[i] = "done"
          => LET got == \E k \in 1..Len(st.responses[i]) :
                            st.responses[i][k] # None /\ Val(st.responses[i][k]) < 400
             IN /\ st.answers[i] = "healthy" => got
                /\ ~got => st.answers[i] = "unhealthy"
    /\ \A k \in 1..Len(st.results) : st.results[k][2] \in {"healthy", "unhealthy", "unknown"}

(***************************************************************************)
(* The tool registry (tool_registry/core_tool.py).  st holds the tools     *)
(* dict of the ToolRegistry object, the content of its tools.json and the  *)
(* outcome of the latest call.                                             *)
(***************************************************************************)
MaxNames == 2

\* tool_registry/models.py, ToolMetadata: the fields the registry reads.
ToolMetadata(name, tool_type, compatibilities, incompatible_with) ==
    [name |-> name, tool_type |-> tool_type,
     compatibilities |-> compatibilities, incompatible_with |-> incompatible_with]

\* f"type:{tool_type}"
TypeTag(tool_type) ==
    CASE tool_type = "browser" -> "type:browser"
      [] tool_type = "parser" -> "type:parser"
      [] OTHER -> "type:http_client"

\* The three tools of tests/test_core_tool.py, and a second metadata for each
\* name.
ToolPool ==
    {ToolMetadata("playwright", "browser", <<"type:parser">>, <<"selenium">>),
     ToolMetadata("beautifulsoup4", "parser", <<"type:browser", "type:http_client">>, <<>>),
     ToolMetadata("selenium", "browser", <<"type:parser">>, <<"playwright">>),
     ToolMetadata("playwright", "browser", <<"selenium">>, <<"type:browser">>),
     ToolMetadata("beautifulsoup4", "parser", <<>>, <<>>),
     ToolMetadata("selenium", "browser", <<"playwright">>, <<>>)}

ToolNames == {tool.name : tool \in ToolPool}

\* tool_registry/core_tool.py, ToolRegistry._are_tools_compatible, with the
\* incompatibility checks after the compatibility ones.
are_tools_compatible_lists_first(tool1, tool2) ==
    LET direct_compatibility1 == tool2.name \in Range(tool1.compatibilities)
        direct_compatibility2 == tool1.name \in Range(tool2.compatibilities)
        type_compatibility1 == TypeTag(tool2.tool_type) \in Range(tool1.compatibilities)
        type_compatibility2 == TypeTag(tool1.tool_type) \in Range(tool2.compatibilities)
    IN IF direct_compatibility1 \/ direct_compatibility2
          \/ type_compatibility1 \/ type_compatibility2
       THEN TRUE
       ELSE /\ tool1.name \notin Range(tool2.incompatible_with)
            /\ tool2.name \notin Range(tool1.incompatible_with)
            /\ TypeTag(tool1.tool_type) \notin Range(tool2.incompatible_with)
            /\ TypeTag(tool2.tool_type) \notin Range(tool1.incompatible_with)

\* tool_registry/core_tool.py, ToolRegistry._are_tools_compatible, reading the
\* compatibilities of the first tool only.
are_tools_compatible_first_only(tool1, tool2) ==
    LET direct_compatibility1 == tool2.name \in Range(tool1.compatibilities)
        type_compatibility1 == TypeTag(tool2.tool_type) \in Range(tool1.compatibilities)
    IN IF tool1.name \in Range(tool2.incompatible_with)
          \/ tool2.name \in Range(tool1.incompatible_with)
       THEN FALSE
       ELSE IF TypeTag(tool1.tool_type) \in Range(tool2.incompatible_with)
               \/ TypeTag(tool2.tool_type) \in Range(tool1.incompatible_with)
       THEN FALSE
       ELSE IF tool1.compatibilities # <<>>
       THEN direct_compatibility1 \/ type_compatibility1
       ELSE TRUE

\* tool_registry/core_tool.py, ToolRegistry._are_tools_compatible
are_tools_compatible(tool1, tool2) ==
    LET direct_compatibility1 == tool2.name \in Range(tool1.compatibilities)
        direct_compatibility2 == tool1.name \in Range(tool2.compatibilities)
        type_compatibility1 == TypeTag(tool2.tool_type) \in Range(tool1.compatibilities)
        type_compatibility2 == TypeTag(tool1.tool_type) \in Range(tool2.compatibilities)
    IN IF tool1.name \in Range(tool2.incompatible_with)
          \/ tool2.name \in Range(tool1.incompatible_with)
       THEN FALSE
       ELSE IF TypeTag(tool1.tool_type) \in Range(tool2.incompatible_with)
               \/ TypeTag(tool2.tool_type) \in Range(tool1.incompatible_with)
       THEN FALSE
       ELSE IF tool1.compatibilities # <<>> /\ tool2.compatibilities # <<>>
       THEN direct_compatibility1 \/ direct_compatibility2
            \/ type_compatibility1 \/ type_compatibility2
       ELSE IF tool1.compatibilities # <<>>
       THEN direct_compatibility1 \/ type_compatibility1
       ELSE IF tool2.compatibilities # <<>>
       THEN direct_compatibility2 \/ type_compatibility2
       ELSE TRUE

Returns(value) == [raised |-> None, value |-> value]
Raises(error) == [raised |-> Some(error), value |-> FALSE]

\* tool_registry/core_tool.py, ToolRegistry.check_compatibility; tools is the
\* dict of the registry, a function from the registered names.
check_compatibility(tools, names) ==
    IF Len(names) <= 1 THEN Returns(TRUE)
    ELSE IF \E k \in 1..Len(names) : names[k] \notin DOMAIN tools
    THEN Raises("ToolNotFoundError")
    ELSE Returns(\A i \in 1..Len(names) : \A j \in (i + 1)..Len(names) :
                    are_tools_compatible(tools[names[i]], tools[names[j]]))

\* tool_registry/core_tool.py, ToolRegistry.add_tool with a ToolMetadata:
\* the dict entry is set, then the file is written (io_ok: the write succeeds).
add_tool(registry, tool, io_ok) ==
    LET tools == [name \in DOMAIN registry.tools \cup {tool.name} |->
                     IF name = tool.name THEN tool ELSE registry.tools[name]]
    IN [tools |-> tools,
        stored |-> IF io_ok THEN tools ELSE registry.stored,
        call |-> <<"add_tool", tool.name>>,
        answer |-> IF io_ok THEN Returns(tool) ELSE Raises("ToolStorageError")]

\* tool_registry/core_tool.py, ToolRegistry.remove_tool
remove_tool(registry, name, io_ok) ==
    IF name \notin DOMAIN registry.tools
    THEN [registry EXCEPT !.call = <<"remove_tool", name>>, !.answer = Returns(FALSE)]
    ELSE LET tools == [n \in DOMAIN registry.tools \ {name} |-> registry.tools[n]]
         IN [tools |-> tools,
             stored |-> IF io_ok THEN tools ELSE registry.stored,
             call |-> <<"remove_tool", name>>,
             answer |-> IF io_ok THEN Returns(TRUE) ELSE Raises("ToolStorageError")]

\* ToolRegistry(storage_path) on a path with no file yet.
InitRegistry ==
    /\ pc = "ToolRegistry"
    /\ st = [tools |-> <<>>, stored |-> <<>>, call |-> <<>>, answer |-> Returns(FALSE)]
    /\ judge_calls = 0
    /\ last = "init"
    /\ decision = None

RegistryCall(name, next_st) ==
    /\ pc = "ToolRegistry"
    /\ st' = next_st
    /\ last' = name
    /\ UNCHANGED <<pc, judge_calls, decision>>

AddTool ==
    /\ pc = "ToolRegistry"
    /\ \E tool \in ToolPool, io_ok \in BOOLEAN :
           RegistryCall("add_tool", add_tool(st, tool, io_ok))

RemoveTool ==
    /\ pc = "ToolRegistry"
    /\ \E name \in ToolNames, io_ok \in BOOLEAN :
           RegistryCall("remove_tool", remove_tool(st, name, io_ok))

CheckCompatibility ==
    /\ pc = "ToolRegistry"
    /\ \E names \in SeqUpTo(ToolNames, MaxNames) :
           RegistryCall("check_compatibility",
                        [st EXCEPT !.call = <<"check_compatibility", names>>,
                                   !.answer = check_compatibility(st.tools, names)])

NextRegistry ==
    \/ AddTool
    \/ RemoveTool
    \/ CheckCompatibility

SpecRegistry == InitRegistry /\ [][NextRegistry]_vars

\* Either tool lists the other's name or "type:" + the other's type as
\* incompatible.
ListsAsIncompatible(tool1, tool2) ==
    \/ tool1.name \in Range(tool2.incompatible_with)
    \/ tool2.name \in Range(tool1.incompatible_with)
    \/ TypeTag(tool1.tool_type) \in Range(tool2.incompatible_with)
    \/ TypeTag(tool2.tool_type) \in Range(tool1.incompatible_with)

\* C24: check_compatibility(names) on registered names is true exactly when
\* every pair of the named tools is compatible; it is false whenever one tool
\* of a pair lists the other's name or type as incompatible, whatever their
\* compatibilities say; with the tools of the tests registered, playwright with
\* selenium is false and playwright with beautifulsoup4 is true.
C24_CheckCompatibility ==
    (last = "check_compatibility" /\ st.answer.raised = None)
    => LET names == st.call[2]
           pairs == {<<i, j>> \in (1..Len(names)) \X (1..Len(names)) : i < j}
           tool(k) == st.tools[names[k]]
       IN /\ Len(names) >= 2
             => /\ st.answer.value
                   <=> \A p \in pairs : are_tools_compatible(tool(p[1]), tool(p[2]))
                /\ (\E p \in pairs : ListsAsIncompatible(tool(p[1]), tool(p[2])))
                   => ~st.answer.value
          /\ (/\ names = <<"playwright", "selenium">>
              /\ st.tools["playwright"] =
                     ToolMetadata("playwright", "browser", <<"type:parser">>, <<"selenium">>))
             => ~st.answer.value
          /\ (/\ names = <<"playwright", "beautifulsoup4">>
              /\ st.tools["playwright"] =
                     ToolMetadata("playwright", "browser", <<"type:parser">>, <<"selenium">>)
              /\ st.tools["beautifulsoup4"] =
                     ToolMetadata("beautifulsoup4", "parser",
                                  <<"type:browser", "type:http_client">>, <<>>))
             => st.answer.value

\* The pair playwright, selenium was checked and found incompatible while
\* playwright names selenium among its compatibilities and lists its type as
\* incompatible.
C24_IncompatibleDespiteCompatibility ==
    /\ last = "check_compatibility"
    /\ st.call[2] = <<"playwright", "selenium">>
    /\ st.answer = Returns(FALSE)
    /\ "selenium" \in Range(st.tools["playwright"].compatibilities)
    /\ st.tools["selenium"].incompatible_with = <<>>

\* C25: add_tool with the name of a registered tool raises
\* ToolAlreadyExistsError and leaves the registered tool and the stored
\* registry as they were.
C25_AddExistingToolRaises ==
    [][(/\ pc = "ToolRegistry"
        /\ last' = "add_tool"
        /\ st'.call[2] \in DOMAIN st.tools)
       => (/\ st'.answer = Raises("ToolAlreadyExistsError")
           /\ st'.tools = st.tools
           /\ st'.stored = st.stored)]_vars

(***************************************************************************)
(* The scrape command (cli/commands/scrape/execute.py) over the mock       *)
(* intent inference, pipeline builder and executor.  st holds the          *)
(* arguments, what was built so far, the calls made in order, the lines    *)
(* reported and the exit code.                                             *)
(***************************************************************************)
UrlAmazon == <<"https://", "amazon", ".com/dp/1">>
UrlExample == <<"https://", "example.com">>

FreeTexts == {<<"get the ", "price", " from ", "https://", "amazon">>, <<"hello">>}

\* --extract values and what field.split(",") with strip() makes of each.
ExtractArgs == {"price,title", "price", ""}
SplitFields(field) ==
    CASE field = "price,title" -> <<"price", "title">>
      [] field = "price" -> <<"price">>
      [] OTHER -> <<"">>

\* cli/mocks/mock_intent_inference.py, IntentSpec
MockIntentSpec(url, requirements, fields) ==
    [target |-> [type |-> "url", value |-> url],
     requirements |-> [technical |-> requirements],
     data_to_extract |-> fields]

js_sites == {"amazon", "ebay", "walmart", "etsy", "airbnb", "booking", "javascript"}

\* cli/mocks/mock_intent_inference.py, mock_infer_intent
mock_infer_intent(text) ==
    LET at == {k \in 1..(Len(text) - 1) : text[k] = "https://"}
        url == IF at = {} THEN UrlExample
               ELSE LET k == CHOOSE k \in at : \A j \in at : k <= j
                    IN <<"https://", text[k + 1]>>
        found == (IF "price" \in Range(text) THEN <<"price">> ELSE <<>>)
                 \o (IF "title" \in Range(text) \/ "name" \in Range(text)
                     THEN <<"title">> ELSE <<>>)
        fields == IF found = <<>> THEN <<"title">> ELSE found
        requirements ==
            <<"html_parsing">>
            \o (IF url[2] \in js_sites \/ "javascript" \in Range(text)
                THEN <<"javascript_rendering">> ELSE <<>>)
    IN MockIntentSpec(url, requirements, fields)

RECURSIVE ExtendFields(_)
\* for field in extract: fields.extend(f.strip() for f in field.split(","))
ExtendFields(extract) ==
    IF extract = <<>> THEN <<>>
    ELSE SplitFields(Head(extract)) \o ExtendFields(Tail(extract))

\* scrape, structured arguments (lines 86-114)
structured_intent(url, extract, javascript) ==
    LET parsed == IF extract = None THEN <<>> ELSE ExtendFields(Val(extract))
        fields == IF parsed = <<>> THEN <<"title">> ELSE parsed
        requirements ==
            <<"html_parsing">>
            \o (IF javascript = Some(TRUE)
                   \/ \E domain \in {"amazon", "ebay", "walmart"} : domain \in Range(url)
                THEN <<"javascript_rendering">> ELSE <<>>)
    IN MockIntentSpec(url, requirements, fields)

\* cli/mocks/mock_pipeline_builder.py, mock_build_pipeline: the tool names
mock_build_pipeline(intent) ==
    [intent |-> intent,
     tools |-> <<IF "javascript_rendering" \in Range(intent.requirements.technical)
                 THEN "playwright" ELSE "requests",
                 "beautifulsoup4">>]

\* cli/mocks/mock_executor.py, mock_execute_pipeline; success is the draw
\* random.random() < 0.9.
mock_execute_pipeline(pipeline, success) ==
    IF success
    THEN [status |-> "success", fields |-> pipeline.intent.data_to_extract]
    ELSE [status |-> "error", fields |-> <<>>]

ScrapeArgs ==
    [free_text : {None} \cup {Some(t) : t \in FreeTexts},
     url : {None, Some(UrlExample), Some(UrlAmazon)},
     extract : {None} \cup {Some(<<e>>) : e \in ExtractArgs},
     javascript : {None, Some(TRUE)},
     json_output : BOOLEAN]

InitScrape ==
    /\ pc = "scrape"
    /\ \E args \in ScrapeArgs :
          st = [args |-> args, intent_spec |-> None, pipeline_spec |-> None,
                calls |-> <<>>, reported |-> <<>>, exit_code |-> None]
    /\ judge_calls = 0
    /\ last = "init"
    /\ decision = None

\* typer.Exit(code=1) raised inside the try is caught by `except Exception`,
\* which reports the error and exits with code 1.
ExitWithError(state, lines) ==
    [state EXCEPT !.reported = @ \o lines \o <<"Error executing scrape">>,
                  !.exit_code = Some(1)]

\* scrape, lines 59-120: the intent spec is inferred from the free text or
\* built from the structured arguments.
ScrapeIntent ==
    /\ pc = "scrape"
    /\ IF st.args.free_text = None /\ st.args.url = None
       THEN /\ st' = ExitWithError(st, <<"You must provide either free-text or --url parameter">>)
            /\ pc' = "exit"
       ELSE IF st.args.free_text # None
       THEN /\ st' = [st EXCEPT
                        !.intent_spec = Some(mock_infer_intent(Val(st.args.free_text))),
                        !.calls = Append(@, "mock_infer_intent"),
                        !.reported = Append(@, "Inferred intent")]
            /\ pc' = "build_pipeline"
       ELSE /\ st' = [st EXCEPT
                        !.intent_spec = Some(structured_intent(Val(st.args.url), st.args.extract,
                                                               st.args.javascript)),
                        !.reported = Append(@, "Structured request")]
            /\ pc' = "build_pipeline"
    /\ last' = "scrape"
    /\ UNCHANGED <<judge_calls, decision>>

\* scrape, lines 122-188
BuildPipeline ==
    /\ pc = "build_pipeline"
    /\ st' = [st EXCEPT
                !.pipeline_spec = Some(mock_build_pipeline(Val(st.intent_spec))),
                !.calls = Append(@, "mock_build_pipeline"),
                !.reported = Append(@, "Proposed pipeline")]
    /\ pc' = "confirm"
    /\ last' = "build_pipeline"
    /\ UNCHANGED <<judge_calls, decision>>

\* scrape, lines 190-195: typer.confirm unless --json; the answer is yes, no,
\* or there is no input to read and the prompt aborts.
ConfirmPipeline ==
    /\ pc = "confirm"
    /\ LET intent == Val(st.intent_spec)
           asks == intent.target.value # <<>> /\ intent.data_to_extract # <<>>
                   /\ ~st.args.json_output
       IN \E answer \in {"yes", "no", "abort"} :
             IF ~asks \/ answer = "yes"
             THEN /\ st' = st
                  /\ pc' = "execute_pipeline"
             ELSE IF answer = "no"
             THEN /\ st' = [st EXCEPT !.reported = Append(@, "Operation cancelled by user"),
                                      !.exit_code = Some(0)]
                  /\ pc' = "exit"
             ELSE /\ st' = ExitWithError(st, <<>>)
                  /\ pc' = "exit"
    /\ last' = "confirm"
    /\ UNCHANGED <<judge_calls, decision>>

\* scrape, lines 197-290
ExecutePipeline ==
    /\ pc = "execute_pipeline"
    /\ \E success \in BOOLEAN :
          LET result == mock_execute_pipeline(Val(st.pipeline_spec), success)
              called == [st EXCEPT !.calls = Append(@, "mock_execute_pipeline")]
          IN IF result.status = "success"
             THEN st' = [called EXCEPT
                           !.reported = Append(@, "Scraping completed successfully"),
                           !.exit_code = Some(0)]
             ELSE st' = ExitWithError(called, <<"Scraping failed">>)
    /\ pc' = "exit"
    /\ last' = "execute_pipeline"
    /\ UNCHANGED <<judge_calls, decision>>

NextScrape ==
    \/ ScrapeIntent
    \/ BuildPipeline
    \/ ConfirmPipeline
    \/ ExecutePipeline

SpecScrape == InitScrape /\ [][NextScrape]_vars

\* C26: the scrape command run with --url and --extract makes its intent spec,
\* builds the pipeline and executes it, in that order, and ends by reporting
\* "Scraping completed successfully" with exit code 0.
C26_ScrapeEndsSuccessfully ==
    (/\ pc = "exit"
     /\ st.args.free_text = None
     /\ st.args.url # None
     /\ st.args.extract # None)
    => /\ st.intent_spec # None
       /\ st.calls = <<"mock_build_pipeline", "mock_execute_pipeline">>
       /\ "Scraping completed successfully" \in Range(st.reported)
       /\ st.exit_code = Some(0)

C28_FeedbackRevisesExistingSpec ==
    [][\A i \in Agents :
          (/\ st'.agent[i].calls = st.agent[i].calls + 1
           /\ StoreOf(i).last_spec # None
           /\ is_feedback(st'.agent[i].user_input))
          => /\ pc'[i] = "_process_feedback"
             /\ st'.heap[st.agent[i].context_store].last_spec = StoreOf(i).last_spec]_vars

(***************************************************************************)
(* The status of a judge verdict: ValidationChain.run                      *)
(* (intent_inference/graph/chains/validation_chain.py) gives the result a  *)
(* status, and validate_intent of the first graph generation sets the      *)
(* status of the result it got from the chain again.                       *)
(***************************************************************************)
MaxIssueWords == 2

UrlWords == {"url", "link", "website", "site", "access"}

IssueWords == {"unclear", "URL", "missing", "price"}
WordedIssues == SeqUpTo(SeqUpTo(IssueWords, MaxIssueWords) \ {<<>>}, 1)

\* What the judge call gives: None when the call or the parse raises, else the
\* parsed dict.
LlmOutputs == {None} \cup {Some(o) : o \in [is_valid : BOOLEAN, issues : WordedIssues]}

\* ValidationChain.run, lines 156-196
ValidationChain_run(llm_output) ==
    IF llm_output = None
    THEN ValidationResult(FALSE, "invalid", <<<<"LLM error: ", "e">>>>)
    ELSE LET is_valid == Val(llm_output).is_valid
             issues == Val(llm_output).issues
             issues_text == IF issues # <<>> THEN Lower(Join(issues)) ELSE <<>>
             status ==
                 IF is_valid THEN "valid"
                 ELSE IF ContainsAny(issues_text, ClarifyWords) THEN "needs_clarification"
                 ELSE IF ContainsAny(issues_text, UrlWords) THEN "url_issue"
                 ELSE IF ContainsAny(issues_text, MissingWords) THEN "missing_data"
                 ELSE "invalid"
         IN ValidationResult(is_valid, status, issues)

InitStatus ==
    /\ pc = "ValidationChain.run"
    /\ \E unhealthy_urls \in {<<>>, <<UrlA>>} :
          st = [unhealthy_urls |-> unhealthy_urls, validation_result |-> None]
    /\ judge_calls = 0
    /\ last = "init"
    /\ decision = None

ValidationChainRun ==
    /\ pc = "ValidationChain.run"
    /\ \E llm_output \in LlmOutputs :
          st' = [st EXCEPT !.validation_result = Some(ValidationChain_run(llm_output))]
    /\ pc' = "validate_intent"
    /\ judge_calls' = judge_calls + 1
    /\ last' = "ValidationChain.run"
    /\ UNCHANGED decision

\* validation_nodes.py, validate_intent lines 138-152
ValidateIntentStatus ==
    /\ pc = "validate_intent"
    /\ LET validation_result == Val(st.validation_result)
       IN st' = [st EXCEPT !.validation_result =
                    Some([validation_result EXCEPT
                             !.status = old_judge_status(validation_result.is_valid,
                                                         validation_result.issues,
                                                         st.unhealthy_urls)])]
    /\ pc' = "validated"
    /\ last' = "validate_intent"
    /\ UNCHANGED <<judge_calls, decision>>

NextStatus == ValidationChainRun \/ ValidateIntentStatus

SpecStatus == InitStatus /\ [][NextStatus]_vars

\* C29: the status of an invalid verdict follows the issue text: a
\* clarification word gives needs_clarification, else a URL word gives
\* url_issue, else a missing-required word gives missing_data, else invalid.
C29_StatusFollowsIssueText ==
    (st.validation_result # None /\ ~Val(st.validation_result).is_valid)
    => LET issues_text == Lower(Join(Val(st.validation_result).issues))
           status == Val(st.validation_result).status
       IN /\ ContainsAny(issues_text, ClarifyWords) => status = "needs_clarification"
          /\ (~ContainsAny(issues_text, ClarifyWords) /\ ContainsAny(issues_text, UrlWords))
             => status = "url_issue"
          /\ (/\ ~ContainsAny(issues_text, ClarifyWords)
              /\ ~ContainsAny(issues_text, UrlWords)
              /\ ContainsAny(issues_text, MissingWords))
             => status = "missing_data"
          /\ (/\ ~ContainsAny(issues_text, ClarifyWords)
              /\ ~ContainsAny(issues_text, UrlWords)
              /\ ~ContainsAny(issues_text, MissingWords))
             => status = "invalid"

RECURSIVE IsSubsequence(_, _)
\* The entries of s occur in t in the same relative order.
IsSubsequence(s, t) ==
    IF s = <<>> THEN TRUE
    ELSE IF t = <<>> THEN FALSE
    ELSE IF Head(s) = Head(t) THEN IsSubsequence(Tail(s), Tail(t))
    ELSE IsSubsequence(s, Tail(t))

\* C30: the critique hints of a context only grow: every hint present before
\* a step on the context is still present, in the same relative order, after
\* the step.
C30_CritiqueHintsOnlyGrow ==
    [][/\ pc \in {"old_state.ContextStore", "state.ContextStore", "models.ContextStore"}
          => IsSubsequence(st.critique_hints, st'.critique_hints)
       /\ pc = "nodes.add_critique"
          => IsSubsequence(st.context.critique_hints, st'.context.critique_hints)]_vars

\* The specs a workflow state holds: the current one and the context's last one.
SpecsIn(state) ==
    IF "raised" \in DOMAIN state THEN {}
    ELSE {Val(o) : o \in {state.current_intent_spec, state.context.last_spec} \ {None}}

MaxOps == 2

DiffFieldNames == {<<"price">>, <<"rating">>}

UrlChange(type, url) == Change(type, url, <<>>, <<>>)
ReplaceUrls(urls) == [Change("replace_urls", <<>>, <<>>, <<>>) EXCEPT !.urls = urls]
UpdateField(field_name, new_name) ==
    [Change("update_field", <<>>, field_name, <<>>) EXCEPT !.new_name = new_name]

DiffOps ==
    {UrlChange("add_url", url) : url \in {UrlA, UrlBare}}
    \cup {UrlChange("remove_url", UrlA)}
    \cup {ReplaceUrls(urls) : urls \in {<<UrlBare>>, <<UrlA, UrlA>>}}
    \cup {Change("add_field", <<>>, <<"rating">>, <<"d">>),
          Change("remove_field", <<>>, <<"price">>, <<>>)}
    \cup {UpdateField(<<"price">>, <<"rating">>), UpdateField(<<"rating">>, <<"price">>)}
    \cup {Change("rename", <<>>, <<"price">>, <<>>)}

KnownTypes ==
    {"add_url", "remove_url", "replace_urls", "add_field", "remove_field", "update_field",
     "add_constraint", "remove_constraint"}

DiffSpec ==
    ChainIntentSpec(Query, <<UrlA>>, <<ExtractedField(<<"price">>, <<"the price">>)>>)

InitDiff ==
    /\ pc = "feedback_chain.invoke"
    /\ st = [spec |-> DiffSpec, changes_to_make |-> <<>>, skipped |-> FALSE]
    /\ judge_calls = 0
    /\ last = "init"
    /\ decision = None

\* main.py, _process_feedback: the feedback chain answers with its changes.
FeedbackChainAnswers ==
    /\ pc = "feedback_chain.invoke"
    /\ RevNumber(st.spec.spec_id) < MaxRev
    /\ \E changes \in SeqUpTo(DiffOps, MaxOps) :
          st' = [st EXCEPT !.changes_to_make = changes]
    /\ pc' = "apply_feedback_to_spec"
    /\ last' = "feedback_chain.invoke"
    /\ UNCHANGED <<judge_calls, decision>>

KnownChanges(changes) == SelectSeq(changes, LAMBDA change : change.type \in KnownTypes)

\* The changes are applied to the spec the previous call returned.
ApplyDiff ==
    /\ pc = "apply_feedback_to_spec"
    /\ \E updated_spec \in {apply_feedback_to_spec(
                                [changes_to_make |-> st.changes_to_make, reasoning |-> <<>>],
                                st.spec)} :
          st' = [spec |-> updated_spec,
                 changes_to_make |-> <<>>,
                 skipped |->
                     /\ \E i, j \in 1..Len(st.changes_to_make) :
                           /\ i < j
                           /\ st.changes_to_make[i].type \notin KnownTypes
                           /\ st.changes_to_make[j].type \in KnownTypes
                     /\ updated_spec # update_spec_revision(st.spec)]
    /\ pc' = "feedback_chain.invoke"
    /\ last' = "apply_feedback_to_spec"
    /\ UNCHANGED <<judge_calls, decision>>

NextDiff == FeedbackChainAnswers \/ ApplyDiff

SpecDiff == InitDiff /\ [][NextDiff]_vars

NoDuplicates(list) == \A i, j \in 1..Len(list) : i < j => list[i] # list[j]

\* C32: after any sequence of URL diff operations on a spec whose target URL
\* list has no duplicates, the list still has no duplicate.
C32_TargetUrlsStayDistinct ==
    NoDuplicates(st.spec.target_urls_or_sites)

\* C33: after any sequence of field diff operations on a spec whose field
\* names are pairwise distinct, the field names are still pairwise distinct.
C33_FieldNamesStayDistinct ==
    NoDuplicates([i \in 1..Len(st.spec.data_to_extract) |->
                     st.spec.data_to_extract[i].field_name])

\* C34: a change of unknown type is skipped and the other changes of the list
\* are applied in order: the spec a call returns is the one the same call
\* returns on the list without its changes of unknown type.
C34_UnknownOpsAreSkipped ==
    [][pc = "apply_feedback_to_spec"
         => st'.spec = apply_feedback_to_spec(
                           [changes_to_make |-> KnownChanges(st.changes_to_make),
                            reasoning |-> <<>>],
                           st.spec)]_vars

\* A call passed over an unknown change and then applied a known one that
\* changed the spec.
C34_KnownOpAfterUnknownApplied ==
    /\ last = "apply_feedback_to_spec"
    /\ st.skipped

\* C35: a spec is user_approved only if a human approval was submitted for the
\* conversation beforehand: no automatic path (valid verdict, exhausted
\* iterations, error fallback) makes a spec user_approved.
C35_ApprovedOnlyByHuman ==
    \A spec \in SpecsIn(st) :
        spec.validation_status = "user_approved"
        => (decision # None /\ Val(decision).approved)

\* An automatic path has ended at the review gate: the spec is exposed for
\* review, no decision was submitted, and the spec is not approved.
C35_PausedWithoutDecision ==
    /\ pc = "END"
    /\ last = "prepare_for_human_review"
    /\ decision = None
    /\ st.needs_human_review
    /\ st.current_intent_spec # None
    /\ Val(st.current_intent_spec).validation_status # "user_approved"

\* C36: after validation url_health_status has an entry under every string of
\* the spec's target URL list, so that a lookup by target URL finds a status.
C36_HealthKeyedByTargetUrl ==
    (last = "validate_intent" /\ st.current_intent_spec # None)
    => \A i \in 1..Len(Val(st.current_intent_spec).target_urls_or_sites) :
          Val(st.current_intent_spec).target_urls_or_sites[i]
              \in DictKeys(Val(st.current_intent_spec).url_health_status)

\* C37: validation changes only the URL health map, the validation status,
\* the critique history and the clarification questions of a spec: its target
\* URLs, fields to extract, constraints, original query and spec_id are the
\* same after validation as before it.
C37_ValidationFrame ==
    [][(pc = "feedback_chain" /\ last' = "validate_intent_spec")
          => /\ st'.target_urls_or_sites = st.target_urls_or_sites
             /\ st'.data_to_extract = st.data_to_extract
             /\ st'.constraints = st.constraints
             /\ st'.original_user_query = st.original_user_query
             /\ st'.spec_id = st.spec_id]_vars

\* A validation found an unhealthy URL: the health map, the status and the
\* critique history of the spec were written.
C37_ValidatedWithUnhealthyUrl ==
    /\ pc = "feedback_chain"
    /\ last = "validate_intent_spec"
    /\ st.validation_status = "needs_revision"
    /\ st.critique_history # <<>>
    /\ \E i \in 1..Len(st.url_health_status) : st.url_health_status[i][2] = "unhealthy"
    /\ st.target_urls_or_sites # <<>>

(***************************************************************************)
(* ContextStore objects of intent_inference-old/state.py on a heap: every  *)
(* method copies its receiver and works on the copy.  st holds the heap    *)
(* (an address is a position), and for the last call its receiver, the     *)
(* value the receiver had before the call and the address returned.        *)
(***************************************************************************)
MaxObjects == 4

\* updated = self: the method works on the receiver itself.
model_copy_alias(heap, self) == [heap |-> heap, ref |-> self]

\* updated = self.model_copy(deep=True): a new object with the same value.
model_copy(heap, self) == [heap |-> Append(heap, heap[self]), ref |-> Len(heap) + 1]

InitStore ==
    /\ pc = "ContextStore"
    /\ st = [heap |-> <<NewContext(Query)>>, self |-> 1,
             before |-> NewContext(Query), returned |-> 1]
    /\ judge_calls = 0
    /\ last = "init"
    /\ decision = None

\* A method ran on the receiver self: updated is the copy it made, next_value
\* the value the method gave the object it worked on.
MethodCall(name, self, updated, next_value) ==
    /\ st' = [heap |-> [updated.heap EXCEPT ![updated.ref] = next_value],
              self |-> self,
              before |-> st.heap[self],
              returned |-> updated.ref]
    /\ last' = name
    /\ UNCHANGED <<pc, judge_calls, decision>>

Receivers == IF Len(st.heap) < MaxObjects THEN 1..Len(st.heap) ELSE {}

StoreIncrementIteration ==
    /\ pc = "ContextStore"
    /\ \E self \in Receivers : \E updated \in {model_copy(st.heap, self)} :
          MethodCall("increment_iteration", self, updated,
                     increment_iteration(updated.heap[updated.ref]))

StoreAddCritiqueHints ==
    /\ pc = "ContextStore"
    /\ \E self \in Receivers : \E updated \in {model_copy(st.heap, self)}, new_hints \in IssueLists :
          MethodCall("add_critique_hints", self, updated,
                     old_add_critique_hints(updated.heap[updated.ref], new_hints))

StoreUpdateLastSpec ==
    /\ pc = "ContextStore"
    /\ \E self \in Receivers : \E updated \in {model_copy(st.heap, self)} :
          MethodCall("update_last_spec", self, updated,
                     update_last_spec(updated.heap[updated.ref], PreviousSpec))

StoreAddValidationHistory ==
    /\ pc = "ContextStore"
    /\ \E self \in Receivers : \E updated \in {model_copy(st.heap, self)} :
          MethodCall("add_validation_history", self, updated,
                     add_validation_history(updated.heap[updated.ref]))

StoreConvertToFeedback ==
    /\ pc = "ContextStore"
    /\ \E self \in Receivers : \E updated \in {model_copy(st.heap, self)} :
          MethodCall("convert_to_feedback", self, updated,
                     convert_to_feedback(updated.heap[updated.ref], FeedbackQuery))

NextStore ==
    \/ StoreIncrementIteration
    \/ StoreAddCritiqueHints
    \/ StoreUpdateLastSpec
    \/ StoreAddValidationHistory
    \/ StoreConvertToFeedback

SpecStore == InitStore /\ [][NextStore]_vars

\* C38: increment_iteration, add_critique_hints, update_last_spec,
\* add_validation_history and convert_to_feedback each return a new context
\* and leave the context they were called on as it was.
C38_MethodsLeaveReceiverUnchanged ==
    last # "init"
    => /\ st.returned # st.self
       /\ st.heap[st.self] = st.before

\* A call on the first context returned a context with other hints.
C38_ReturnedContextDiffers ==
    /\ last = "add_critique_hints"
    /\ st.self = 1
    /\ st.returned # 1
    /\ st.heap[st.returned].critique_hints # st.before.critique_hints

(***************************************************************************)
(* The registry with find_compatible_tools among its calls.                *)
(***************************************************************************)
ToolTypes == {tool.tool_type : tool \in ToolPool}

\* tool_registry/core_tool.py, ToolRegistry.find_compatible_tools; target_type
\* is None or Some(type).  The returned list is given as the set of its
\* members: the dict holds one tool per name, so none appears twice.
find_compatible_tools(tools, name, target_type) ==
    IF name \notin DOMAIN tools THEN Raises("ToolNotFoundError")
    ELSE LET source_tool == tools[name]
         IN Returns({tools[n] : n \in
                       {n \in DOMAIN tools :
                           /\ tools[n].name # name
                           /\ target_type = None \/ tools[n].tool_type = Val(target_type)
                           /\ are_tools_compatible(source_tool, tools[n])}})

FindCompatibleTools ==
    /\ pc = "ToolRegistry"
    /\ \E name \in ToolNames, target_type \in {None} \cup {Some(t) : t \in ToolTypes} :
           RegistryCall("find_compatible_tools",
                        [st EXCEPT !.call = <<"find_compatible_tools", name, target_type>>,
                                   !.answer = find_compatible_tools(st.tools, name, target_type)])

NextCompatible ==
    \/ AddTool
    \/ RemoveTool
    \/ FindCompatibleTools

SpecCompatible == InitRegistry /\ [][NextCompatible]_vars

\* C39: _are_tools_compatible(a, b) equals _are_tools_compatible(b, a) for any
\* two tool metadata records, so a registered tool b is in
\* find_compatible_tools(a) exactly when a is in find_compatible_tools(b).
C39_CompatibilityIsSymmetric ==
    /\ \A a \in ToolPool, b \in ToolPool :
          are_tools_compatible(a, b) = are_tools_compatible(b, a)
    /\ (/\ last = "find_compatible_tools"
        /\ st.answer.raised = None
        /\ st.call[3] = None)
       => \A n \in DOMAIN st.tools \ {st.call[2]} :
             st.tools[n] \in st.answer.value
             <=> st.tools[st.call[2]]
                    \in find_compatible_tools(st.tools, n, None).value

\* find_compatible_tools without a type filter returned one registered tool
\* and left out another, one of the pair having no compatibilities of its own.
C39_FoundSomeLeftSome ==
    /\ last = "find_compatible_tools"
    /\ st.answer.raised = None
    /\ st.call[3] = None
    /\ \E n \in DOMAIN st.tools : st.tools[n] \in st.answer.value
    /\ \E n \in DOMAIN st.tools \ {st.call[2]} :
          /\ st.tools[n] \notin st.answer.value
          /\ st.tools[n].compatibilities = <<>> \/ st.tools[st.call[2]].compatibilities = <<>>

====
